---- MODULE Spec2Model ----
(***************************************************************************)
(* The task scheduler of packages/tasks_loop: the due-check against cron   *)
(* schedules, priority-ordered selection, execution under a timeout and    *)
(* the retry accounting of the job record.                                 *)
(*                                                                         *)
(* Time is counted in seconds.  The clock is observed every Quantum        *)
(* seconds; cron schedules fire on whole minutes.  An Optional value is a  *)
(* sequence of length 0 (None) or 1.                                       *)
(***************************************************************************)
EXTENDS Integers, Sequences, FiniteSets, TLC

VARIABLES
    jobs,        \* TaskScheduler.jobs: the Job records, in insertion order
    config,      \* TaskScheduler.config
    now,         \* datetime.now()
    pc,          \* where the driver of run_once is: "idle", "loop", "exec"
    due_jobs,    \* run_once: the list returned by get_jobs_due
    idx,         \* run_once: position of the for loop in due_jobs[:max]
    executed,    \* run_once: the counter `executed`
    ret,         \* value returned by the latest run_once
    start_time,  \* execute_job: start_time of the execution in progress
    started,     \* history: the jobs execute_job was called on in this tick
    hist,        \* history, per job: what its subprocess did
    last_exec,   \* history: the latest call of execute_job in this tick
    daemon,      \* TaskScheduler.run: _running and where its loop is
    loader,      \* TaskScheduler.load_jobs: the jobs directory and its loop
    tracker,     \* StateTracker: processed and timestamps, in memory
    state_file,  \* StateTracker.state_file: the JSON document on disk
    orch         \* InputSourceOrchestrator: sources, last_poll, poll_cycle

vars == <<jobs, config, now, pc, due_jobs, idx, executed, ret, start_time,
          started, hist, last_exec, daemon, loader, tracker, state_file,
          orch>>

\* the state of the input orchestrator
lib_vars == <<tracker, state_file, orch>>

\* the state outside the scheduler loop
others == <<loader, tracker, state_file, orch>>

----------------------------------------------------------------------------
(* Bounds of the model *)

Quantum == 5
MaxTime == 90
MaxFineTime == 130
MaxRaiseTime == 60
MaxRunTime == 120
MaxFiles == 2
MaxMarks == 4
MaxOrchTime == 120
MaxCycles == 2
MaxLoopTime == 240
MaxDeferrals == 3
MaxLoopRetries == 1

----------------------------------------------------------------------------
(* Optional values *)

None == <<>>
Some(v) == <<v>>
IsNone(x) == x = <<>>
Val(x) == x[1]

----------------------------------------------------------------------------
(* Time and cron schedules *)

Minute == 60

EveryMinute == "* * * * *"
EveryTwoMinutes == "*/2 * * * *"
BadSchedule == "not a cron"

\* croniter(expr, now) raises on an expression it cannot parse
CronValid(expr) == expr \in {EveryMinute, EveryTwoMinutes}

\* seconds between two firings of a parsable expression
CronPeriod(expr) == IF expr = EveryMinute THEN Minute ELSE 2 * Minute

\* croniter(expr, t).get_prev(datetime): the latest firing strictly before t
GetPrevAtOrBefore(expr, t) == (t \div CronPeriod(expr)) * CronPeriod(expr)
GetPrev(expr, t) == ((t - 1) \div CronPeriod(expr)) * CronPeriod(expr)

----------------------------------------------------------------------------
(* Job records *)

PriorityOrder == <<"urgent", "high", "medium", "low">>

\* priority_order.index(p)
PriorityIndex(p) == (CHOOSE i \in 1..Len(PriorityOrder) : PriorityOrder[i] = p) - 1

\* Priority.__lt__
PriorityLt(a, b) == PriorityIndex(a) < PriorityIndex(b)

\* Job(...): the definition fields, and the runtime state of a new job
NewJob(id, schedule, priority, enabled, max_retries, timeout_seconds) ==
    [id |-> id, schedule |-> schedule, priority |-> priority,
     enabled |-> enabled, max_retries |-> max_retries,
     timeout_seconds |-> timeout_seconds,
     state |-> "pending", last_run |-> None, last_result |-> None,
     retry_count |-> 0]

\* JobResult(success, timestamp, message, duration_seconds)
JobResult(success, timestamp, message, duration_seconds) ==
    [success |-> success, timestamp |-> timestamp, message |-> message,
     duration_seconds |-> duration_seconds]

\* Job.record_result keeping the first last_result
record_result_first_result(job, result) ==
    [job EXCEPT !.last_run = Some(result.timestamp),
                !.last_result = IF IsNone(@) THEN Some(result) ELSE @,
                !.state = IF result.success THEN "completed" ELSE "failed",
                !.retry_count = IF result.success THEN 0 ELSE @ + 1]

\* Job.record_result
record_result_no_reset(job, result) ==
    [job EXCEPT !.last_run = Some(result.timestamp),
                !.last_result = Some(result),
                !.state = IF result.success THEN "completed" ELSE "failed",
                !.retry_count = @ + (IF result.success THEN 0 ELSE 1)]
record_result_stale_last_run(job, result) ==
    [job EXCEPT !.last_run = IF IsNone(@) THEN Some(result.timestamp) ELSE @,
                !.last_result = Some(result),
                !.state = IF result.success THEN "completed" ELSE "failed",
                !.retry_count = IF result.success THEN 0 ELSE @ + 1]
record_result_capped(job, result) ==
    [job EXCEPT !.last_run = Some(result.timestamp),
                !.last_result = Some(result),
                !.state = IF result.success THEN "completed" ELSE "failed",
                !.retry_count = IF result.success THEN 0
                                ELSE IF @ < job.max_retries THEN @ + 1 ELSE @]
record_result(job, result) ==
    [job EXCEPT !.last_run = Some(result.timestamp),
                !.last_result = Some(result),
                !.state = IF result.success THEN "completed" ELSE "failed",
                !.retry_count = IF result.success THEN 0 ELSE @ + 1]

\* Job.can_retry
can_retry_any_state(job) == job.retry_count < job.max_retries
can_retry(job) == job.state = "failed" /\ job.retry_count < job.max_retries


\* Job.reset_state
reset_state_as_new(job) ==
    [job EXCEPT !.state = "pending", !.retry_count = 0,
                !.last_run = None, !.last_result = None]
reset_state(job) == [job EXCEPT !.state = "pending", !.retry_count = 0]

----------------------------------------------------------------------------
(* TaskScheduler: due-check and selection *)

\* TaskScheduler._is_job_due: croniter is built first, so an expression it
\* cannot parse gives False whatever last_run is
is_job_due_not_strict(job, t) ==
    IF ~CronValid(job.schedule) THEN FALSE
    ELSE IF IsNone(job.last_run) THEN TRUE
    ELSE GetPrev(job.schedule, t) >= Val(job.last_run)
is_job_due_no_first_run(job, t) ==
    IF ~CronValid(job.schedule) THEN FALSE
    ELSE IF IsNone(job.last_run) THEN GetPrev(job.schedule, t) > t
    ELSE GetPrev(job.schedule, t) > Val(job.last_run)
is_job_due_first_run_first(job, t) ==
    IF IsNone(job.last_run) THEN TRUE
    ELSE IF ~CronValid(job.schedule) THEN FALSE
    ELSE GetPrev(job.schedule, t) > Val(job.last_run)
is_job_due_only_fresh(job, t) ==
    IF ~CronValid(job.schedule) THEN FALSE
    ELSE IF t - GetPrev(job.schedule, t) > Minute \div 2 THEN FALSE
    ELSE IF IsNone(job.last_run) THEN TRUE
    ELSE GetPrev(job.schedule, t) > Val(job.last_run)
is_job_due(job, t) ==
    IF ~CronValid(job.schedule) THEN FALSE
    ELSE IF IsNone(job.last_run) THEN TRUE
    ELSE GetPrev(job.schedule, t) > Val(job.last_run)

\* due_jobs.sort(key=lambda j: j.priority): a stable sort that compares the
\* keys with < only.  InsertByPriority puts job index j after every entry
\* that is not greater than it.
RECURSIVE InsertByPriorityUnstable(_, _, _)
InsertByPriorityUnstable(js, sorted, j) ==
    IF sorted = <<>> THEN <<j>>
    ELSE IF ~PriorityLt(js[Head(sorted)].priority, js[j].priority)
         THEN <<j>> \o sorted
         ELSE <<Head(sorted)>> \o InsertByPriorityUnstable(js, Tail(sorted), j)
RECURSIVE InsertByPriority(_, _, _)
InsertByPriority(js, sorted, j) ==
    IF sorted = <<>> THEN <<j>>
    ELSE IF PriorityLt(js[j].priority, js[Head(sorted)].priority)
         THEN <<j>> \o sorted
         ELSE <<Head(sorted)>> \o InsertByPriority(js, Tail(sorted), j)

RECURSIVE SortByPriority(_, _)
SortByPriority(js, s) ==
    IF s = <<>> THEN <<>>
    ELSE InsertByPriority(js, SortByPriority(js, SubSeq(s, 1, Len(s) - 1)),
                          s[Len(s)])

\* the for loop of get_jobs_due over self.jobs.values(), from position i
RECURSIVE DueFromIgnoringEnabled(_, _, _)
DueFromIgnoringEnabled(js, t, i) ==
    IF i > Len(js) THEN <<>>
    ELSE IF js[i].state = "running" THEN DueFromIgnoringEnabled(js, t, i + 1)
    ELSE IF is_job_due(js[i], t) THEN <<i>> \o DueFromIgnoringEnabled(js, t, i + 1)
    ELSE DueFromIgnoringEnabled(js, t, i + 1)
RECURSIVE DueFromIgnoringRunning(_, _, _)
DueFromIgnoringRunning(js, t, i) ==
    IF i > Len(js) THEN <<>>
    ELSE IF ~js[i].enabled THEN DueFromIgnoringRunning(js, t, i + 1)
    ELSE IF is_job_due(js[i], t) THEN <<i>> \o DueFromIgnoringRunning(js, t, i + 1)
    ELSE DueFromIgnoringRunning(js, t, i + 1)
RECURSIVE DueFromSkippingExhausted(_, _, _)
DueFromSkippingExhausted(js, t, i) ==
    IF i > Len(js) THEN <<>>
    ELSE IF ~js[i].enabled THEN DueFromSkippingExhausted(js, t, i + 1)
    ELSE IF js[i].state = "running" THEN DueFromSkippingExhausted(js, t, i + 1)
    ELSE IF js[i].state = "failed" /\ ~can_retry(js[i])
         THEN DueFromSkippingExhausted(js, t, i + 1)
    ELSE IF is_job_due(js[i], t)
         THEN <<i>> \o DueFromSkippingExhausted(js, t, i + 1)
    ELSE DueFromSkippingExhausted(js, t, i + 1)
\* get_jobs_due re-running a failed job that can retry without a new firing
RECURSIVE DueFromRetryingFailed(_, _, _)
DueFromRetryingFailed(js, t, i) ==
    IF i > Len(js) THEN <<>>
    ELSE IF ~js[i].enabled THEN DueFromRetryingFailed(js, t, i + 1)
    ELSE IF js[i].state = "running" THEN DueFromRetryingFailed(js, t, i + 1)
    ELSE IF can_retry(js[i]) \/ is_job_due(js[i], t)
         THEN <<i>> \o DueFromRetryingFailed(js, t, i + 1)
    ELSE DueFromRetryingFailed(js, t, i + 1)
RECURSIVE DueFrom(_, _, _)
DueFrom(js, t, i) ==
    IF i > Len(js) THEN <<>>
    ELSE IF ~js[i].enabled THEN DueFrom(js, t, i + 1)
    ELSE IF js[i].state = "running" THEN DueFrom(js, t, i + 1)
    ELSE IF is_job_due(js[i], t) THEN <<i>> \o DueFrom(js, t, i + 1)
    ELSE DueFrom(js, t, i + 1)

\* TaskScheduler.get_jobs_due: indices into jobs, sorted by priority
get_jobs_due(js, t) == SortByPriority(js, DueFrom(js, t, 1))

\* the last n entries instead of the first: s[-n:]
SliceToLast(s, n) ==
    IF n > 0 THEN SubSeq(s, IF n < Len(s) THEN Len(s) - n + 1 ELSE 1, Len(s))
    ELSE <<>>

\* Python's s[:n]
SliceTo(s, n) ==
    IF n >= 0 THEN SubSeq(s, 1, IF n < Len(s) THEN n ELSE Len(s))
    ELSE SubSeq(s, 1, IF Len(s) + n > 0 THEN Len(s) + n ELSE 0)

\* run_once: due_jobs[: self.config.max_concurrent_jobs]
Selected == SliceTo(due_jobs, config.max_concurrent_jobs)

----------------------------------------------------------------------------
(* TaskScheduler.execute_job *)

\* str.strip() on a text given as a sequence of characters
RECURSIVE LStrip(_)
LStrip(s) == IF s # <<>> /\ Head(s) = " " THEN LStrip(Tail(s)) ELSE s
RECURSIVE RStrip(_)
RStrip(s) ==
    IF s # <<>> /\ s[Len(s)] = " " THEN RStrip(SubSeq(s, 1, Len(s) - 1)) ELSE s
Strip(s) == RStrip(LStrip(s))

\* what the command may write to stdout and stderr
Outputs ==
    [stdout : {<<"o", "k">>, <<" ", "o", "k", " ">>},
     stderr : {<<"e">>, <<" ", "e">>}]

\* one of them, for the runs with several jobs
PlainOutputs == {[stdout |-> <<" ", "o", "k", " ">>, stderr |-> <<" ", "e">>]}

\* a subprocess that returned nothing (it timed out or did not start)
NoOutput == [stdout |-> <<>>, stderr |-> <<>>]

\* timeout = job.timeout_seconds or self.config.default_timeout_seconds
TimeoutOf(job) ==
    IF IsNone(job.timeout_seconds) \/ Val(job.timeout_seconds) = 0
    THEN config.default_timeout_seconds
    ELSE Val(job.timeout_seconds)

\* the JobResult built when subprocess.run returns
ExitResultUntrimmed(returncode, stdout, stderr, elapsed) ==
    JobResult(returncode = 0, now,
              <<"output", IF returncode = 0 THEN stdout ELSE stderr>>,
              elapsed)
ExitResult(returncode, stdout, stderr, elapsed) ==
    JobResult(returncode = 0, now,
              <<"output", Strip(IF returncode = 0 THEN stdout ELSE stderr)>>,
              elapsed)

\* the JobResult built on subprocess.TimeoutExpired
TimeoutResultElapsed(timeout, elapsed) ==
    JobResult(FALSE, now, <<"Job timed out after", timeout>>, elapsed)
TimeoutResult(timeout, elapsed) ==
    JobResult(FALSE, now, <<"Job timed out after", timeout>>, timeout)

\* the JobResult built on any other Exception of subprocess.run
ErrorResult(elapsed) ==
    JobResult(FALSE, now, <<"Execution error", "OSError">>, elapsed)

Current == Selected[idx]

----------------------------------------------------------------------------
(* Initial states *)

DefaultConfig ==
    [poll_interval_seconds |-> 60, default_timeout_seconds |-> 300,
     max_concurrent_jobs |-> 1]

\* the job directories the scheduler is started on
JobSets ==
    { << NewJob("low", EveryMinute, "low", TRUE, 0, None),
         NewJob("urgent", EveryMinute, "urgent", TRUE, 0, None),
         NewJob("medium", EveryMinute, "medium", TRUE, 0, None),
         NewJob("high", EveryMinute, "high", TRUE, 0, None) >>,
      << NewJob("a", EveryTwoMinutes, "medium", TRUE, 2, Some(30)),
         NewJob("b", EveryMinute, "urgent", FALSE, 0, None),
         NewJob("c", EveryMinute, "high", TRUE, 0, Some(0)),
         NewJob("d", EveryMinute, "medium", TRUE, 0, None) >>,
      << NewJob("x", EveryMinute, "high", TRUE, 2, None),
         NewJob("y", BadSchedule, "urgent", TRUE, 1, None),
         NewJob("z", EveryMinute, "high", TRUE, 0, Some(30)) >> }

\* the one-job directories of the fine-grained clock
FineJobSets ==
    { << NewJob("m", EveryMinute, "medium", TRUE, 2, Some(10)) >>,
      << NewJob("t", EveryTwoMinutes, "medium", TRUE, 0, None) >> }

\* max_concurrent_jobs as configured (the YAML is not validated)
ConcurrencyValues == {-1, 0, 1, 2}

NoHist ==
    [streak |-> 0, before |-> 0, outcome |-> "none", timeout |-> 0, runs |-> 0,
     backlog |-> 0]

NoExec == [job |-> 0, output |-> NoOutput, returned |-> None]

\* run() has not been called: run_once is driven directly
NoDaemon ==
    [mode |-> "off", running |-> FALSE, wake |-> 0, request |-> "none",
     raised |-> 0, left_out |-> <<>>]

\* load_jobs has not been called
NoLoader ==
    [phase |-> "off", dir |-> None, pos |-> 0, loaded |-> 0, ret |-> 0,
     results |-> <<>>, before |-> <<>>]

\* StateTracker.__init__ without a state file
NoTracker ==
    [processed |-> [s \in {} |-> {}], timestamps |-> [s \in {} |-> {}],
     log |-> {}, calls |-> 0, fresh |-> FALSE]

\* no InputSourceOrchestrator has been built
NoOrch ==
    [sources |-> <<>>, feed |-> [s \in {} |-> <<>>],
     poll_intervals |-> [s \in {} |-> 0], last_poll |-> [s \in {} |-> 0],
     phase |-> "off", src_pos |-> 0, all_items |-> <<>>, item_pos |-> 0,
     cycles |-> 0, polled |-> <<>>, unsorted |-> <<>>, processed |-> <<>>,
     outcomes |-> <<>>, acknowledged |-> [s \in {} |-> <<>>]]

InitLib ==
    /\ tracker = NoTracker
    /\ state_file = None
    /\ orch = NoOrch

InitOthers ==
    /\ loader = NoLoader
    /\ InitLib

InitWith(jobsets, concs) ==
    /\ jobs \in jobsets
    /\ \E c \in concs : config = [DefaultConfig EXCEPT !.max_concurrent_jobs = c]
    /\ now = 0
    /\ pc = "idle"
    /\ due_jobs = <<>>
    /\ idx = 0
    /\ executed = 0
    /\ ret = 0
    /\ start_time = 0
    /\ started = <<>>
    /\ hist = [j \in 1..Len(jobs) |-> NoHist]
    /\ last_exec = NoExec
    /\ daemon = NoDaemon
    /\ InitOthers

Init == InitWith(JobSets, ConcurrencyValues)

InitFine == InitWith(FineJobSets, {1})

\* the jobs the daemon is started on
RunJobSets ==
    { << NewJob("p", EveryMinute, "high", TRUE, 1, Some(30)),
         NewJob("q", EveryMinute, "medium", TRUE, 0, None) >> }

\* run after self._running = True and self.load_jobs()
InitRun ==
    /\ jobs \in RunJobSets
    /\ \E c \in {1, 2} : config = [DefaultConfig EXCEPT !.max_concurrent_jobs = c]
    /\ now = 0
    /\ pc = "idle"
    /\ due_jobs = <<>>
    /\ idx = 0
    /\ executed = 0
    /\ ret = 0
    /\ start_time = 0
    /\ started = <<>>
    /\ hist = [j \in 1..Len(jobs) |-> NoHist]
    /\ last_exec = NoExec
    /\ daemon = [NoDaemon EXCEPT !.mode = "head", !.running = TRUE]
    /\ InitOthers

InitRaise == InitWith(JobSets, {2})

----------------------------------------------------------------------------
(* Actions *)

\* run_once up to the for loop: due_jobs = self.get_jobs_due(); return 0
\* when nothing is due
RunOnceBeginMarking ==
    /\ pc = "idle"
    /\ due_jobs' = get_jobs_due(jobs, now)
    /\ jobs' = [j \in 1..Len(jobs) |->
                  IF \E k \in 1..Len(due_jobs') : due_jobs'[k] = j
                  THEN [jobs[j] EXCEPT !.state = "running"] ELSE jobs[j]]
    /\ started' = <<>>
    /\ last_exec' = NoExec
    /\ IF due_jobs' = <<>>
       THEN /\ ret' = 0
            /\ UNCHANGED <<pc, idx, executed>>
       ELSE /\ pc' = "loop"
            /\ idx' = 1
            /\ executed' = 0
            /\ UNCHANGED ret
    /\ daemon' = [daemon EXCEPT !.mode = IF @ = "head" THEN "tick" ELSE @]
    /\ UNCHANGED <<config, now, start_time, hist, others>>
RunOnceBegin ==
    /\ pc = "idle"
    /\ due_jobs' = get_jobs_due(jobs, now)
    /\ started' = <<>>
    /\ last_exec' = NoExec
    /\ IF due_jobs' = <<>>
       THEN /\ ret' = 0
            /\ UNCHANGED <<pc, idx, executed>>
       ELSE /\ pc' = "loop"
            /\ idx' = 1
            /\ executed' = 0
            /\ UNCHANGED ret
    /\ daemon' = [daemon EXCEPT !.mode = IF @ = "head" THEN "tick" ELSE @]
    /\ UNCHANGED <<jobs, config, now, start_time, hist, others>>

\* history: the firings of the job's schedule since its last run, at time t
MissedFirings(job, t) ==
    IF IsNone(job.last_run) \/ ~CronValid(job.schedule) THEN 0
    ELSE Cardinality({f \in Val(job.last_run) + 1 .. t - 1 :
                         f % CronPeriod(job.schedule) = 0})

\* execute_job invoking the command without job.state = RUNNING
ExecuteBeginNotMarking ==
    /\ pc = "loop"
    /\ idx <= Len(Selected)
    /\ start_time' = now
    /\ started' = Append(started, Current)
    /\ hist' = [hist EXCEPT ![Current].timeout = TimeoutOf(jobs[Current]),
                            ![Current].outcome = "running",
                            ![Current].backlog = MissedFirings(jobs[Current], now)]
    /\ last_exec' = [NoExec EXCEPT !.job = Current]
    /\ pc' = "exec"
    /\ UNCHANGED <<jobs, config, now, due_jobs, idx, executed, ret,
                   daemon, others>>

\* execute_job up to subprocess.run: job.state = RUNNING, start_time, timeout
ExecuteBegin ==
    /\ pc = "loop"
    /\ idx <= Len(Selected)
    /\ jobs' = [jobs EXCEPT ![Current].state = "running"]
    /\ start_time' = now
    /\ started' = Append(started, Current)
    /\ hist' = [hist EXCEPT ![Current].timeout = TimeoutOf(jobs[Current]),
                            ![Current].outcome = "running",
                            ![Current].backlog = MissedFirings(jobs[Current], now)]
    /\ last_exec' = [NoExec EXCEPT !.job = Current]
    /\ pc' = "exec"
    /\ UNCHANGED <<config, now, due_jobs, idx, executed, ret,
                   daemon, others>>

\* the rest of execute_job and of the loop body: job.record_result(job_result),
\* return job_result, executed += 1
FinishRecordingTwice(result, outcome, output) ==
    /\ jobs' = [jobs EXCEPT ![Current] =
                    record_result(record_result(@, result), result)]
    /\ hist' = [hist EXCEPT ![Current].outcome = outcome,
                            ![Current].runs = @ + 1,
                            ![Current].before = hist[Current].streak,
                            ![Current].streak =
                                IF outcome = "exit0" THEN 0 ELSE @ + 1]
    /\ last_exec' = [job |-> Current, output |-> output, returned |-> Some(result)]
    /\ executed' = executed + 1
    /\ idx' = idx + 1
    /\ pc' = "loop"
    /\ UNCHANGED <<config, now, due_jobs, ret, start_time, started,
                   daemon, others>>
\* the rest of execute_job putting a failed job that can retry back to pending
FinishRequeueing(result, outcome, output) ==
    /\ jobs' = [jobs EXCEPT ![Current] =
                    IF can_retry(record_result(@, result))
                    THEN [record_result(@, result) EXCEPT !.state = "pending"]
                    ELSE record_result(@, result)]
    /\ hist' = [hist EXCEPT ![Current].outcome = outcome,
                            ![Current].runs = @ + 1,
                            ![Current].before = hist[Current].streak,
                            ![Current].streak =
                                IF outcome = "exit0" THEN 0 ELSE @ + 1]
    /\ last_exec' = [job |-> Current, output |-> output, returned |-> Some(result)]
    /\ executed' = executed + 1
    /\ idx' = idx + 1
    /\ pc' = "loop"
    /\ UNCHANGED <<config, now, due_jobs, ret, start_time, started,
                   daemon, others>>
\* the rest of execute_job treating a job as one-shot: disabled once completed
FinishDisablingCompleted(result, outcome, output) ==
    /\ jobs' = [jobs EXCEPT ![Current] =
                    [record_result(@, result) EXCEPT
                        !.enabled = IF result.success THEN FALSE ELSE @]]
    /\ hist' = [hist EXCEPT ![Current].outcome = outcome,
                            ![Current].runs = @ + 1,
                            ![Current].before = hist[Current].streak,
                            ![Current].streak =
                                IF outcome = "exit0" THEN 0 ELSE @ + 1]
    /\ last_exec' = [job |-> Current, output |-> output, returned |-> Some(result)]
    /\ executed' = executed + 1
    /\ idx' = idx + 1
    /\ pc' = "loop"
    /\ UNCHANGED <<config, now, due_jobs, ret, start_time, started,
                   daemon, others>>
Finish(result, outcome, output) ==
    /\ jobs' = [jobs EXCEPT ![Current] = record_result(@, result)]
    /\ hist' = [hist EXCEPT ![Current].outcome = outcome,
                            ![Current].runs = @ + 1,
                            ![Current].before = hist[Current].streak,
                            ![Current].streak =
                                IF outcome = "exit0" THEN 0 ELSE @ + 1]
    /\ last_exec' = [job |-> Current, output |-> output, returned |-> Some(result)]
    /\ executed' = executed + 1
    /\ idx' = idx + 1
    /\ pc' = "loop"
    /\ UNCHANGED <<config, now, due_jobs, ret, start_time, started,
                   daemon, others>>

\* subprocess.run returns with exit status 0
ExecuteExitZeroOn(outputs) ==
    /\ pc = "exec"
    /\ now - start_time <= hist[Current].timeout
    /\ \E o \in outputs :
          Finish(ExitResult(0, o.stdout, o.stderr, now - start_time), "exit0", o)

ExecuteExitZero == ExecuteExitZeroOn(PlainOutputs)

ExecuteExitZeroAnyOutput == ExecuteExitZeroOn(Outputs)

\* subprocess.run returns with a non-zero exit status
ExecuteExitNonZeroOn(outputs) ==
    /\ pc = "exec"
    /\ now - start_time <= hist[Current].timeout
    /\ \E o \in outputs :
          Finish(ExitResult(1, o.stdout, o.stderr, now - start_time), "exit1", o)

ExecuteExitNonZero == ExecuteExitNonZeroOn(PlainOutputs)

ExecuteExitNonZeroAnyOutput == ExecuteExitNonZeroOn(Outputs)

\* subprocess.run raises TimeoutExpired
ExecuteTimeout ==
    /\ pc = "exec"
    /\ now - start_time >= hist[Current].timeout
    /\ Finish(TimeoutResult(hist[Current].timeout, now - start_time), "timeout",
              NoOutput)

\* subprocess.run raises another Exception (the command cannot be launched)
ExecuteErrorUncaught ==
    /\ pc = "exec"
    /\ now = start_time
    /\ hist' = [hist EXCEPT ![Current].outcome = "error"]
    /\ idx' = idx + 1
    /\ pc' = "loop"
    /\ UNCHANGED <<jobs, config, now, due_jobs, executed, ret, start_time,
                   started, last_exec, daemon, others>>
ExecuteError ==
    /\ pc = "exec"
    /\ now = start_time
    /\ Finish(ErrorResult(now - start_time), "error", NoOutput)

\* execute_job raises an Exception outside its own try block (a MemoryError,
\* say), before or after job.state = RUNNING; run_once catches and logs it
ExecuteRaisesAborting ==
    /\ pc = "loop"
    /\ idx <= Len(Selected)
    /\ \E marked \in BOOLEAN :
          jobs' = IF marked THEN [jobs EXCEPT ![Current].state = "running"]
                  ELSE jobs
    /\ started' = Append(started, Current)
    /\ hist' = [hist EXCEPT ![Current].outcome = "raised"]
    /\ last_exec' = [NoExec EXCEPT !.job = Current]
    /\ ret' = executed
    /\ pc' = "idle"
    /\ UNCHANGED <<config, now, due_jobs, idx, executed, start_time,
                   daemon, others>>
ExecuteRaises ==
    /\ pc = "loop"
    /\ idx <= Len(Selected)
    /\ \E marked \in BOOLEAN :
          jobs' = IF marked THEN [jobs EXCEPT ![Current].state = "running"]
                  ELSE jobs
    /\ started' = Append(started, Current)
    /\ hist' = [hist EXCEPT ![Current].outcome = "raised"]
    /\ last_exec' = [NoExec EXCEPT !.job = Current]
    /\ idx' = idx + 1
    /\ UNCHANGED <<config, now, pc, due_jobs, executed, ret, start_time,
                   daemon, others>>

\* run_once after the for loop: return executed
RunOnceReturn ==
    /\ pc = "loop"
    /\ idx > Len(Selected)
    /\ ret' = executed
    /\ pc' = "idle"
    /\ UNCHANGED <<jobs, config, now, due_jobs, idx, executed, start_time,
                   started, hist, last_exec, daemon, others>>

\* time passes: between ticks, or while the command runs
Advance(d, horizon) ==
    /\ pc \in {"idle", "exec"}
    /\ now + d <= horizon
    /\ now' = now + d
    /\ UNCHANGED <<jobs, config, pc, due_jobs, idx, executed, ret, start_time,
                   started, hist, last_exec, daemon, others>>

HalfMinute == Advance(Minute \div 2, MaxTime)

Tick == Advance(Quantum, MaxFineTime)

ShortHalfMinute == Advance(Minute \div 2, MaxRaiseTime)

----------------------------------------------------------------------------
(* TaskScheduler.run and TaskScheduler.stop *)

\* run: `while self._running:` is true and self.run_once() is called
DaemonRunOnce ==
    /\ daemon.mode = "head"
    /\ daemon.running
    /\ RunOnceBegin

\* run: run_once has returned, time.sleep(poll_interval_seconds) begins
DaemonSleep ==
    /\ daemon.mode = "tick"
    /\ pc = "idle"
    /\ daemon' = [daemon EXCEPT !.mode = "sleep",
                                !.wake = now + config.poll_interval_seconds]
    /\ UNCHANGED <<jobs, config, now, pc, due_jobs, idx, executed, ret,
                   start_time, started, hist, last_exec, others>>

\* run: time.sleep returns after the whole interval, in the try block or in
\* the handler of `except Exception`
DaemonWake ==
    /\ daemon.mode \in {"sleep", "error_sleep"}
    /\ now >= daemon.wake
    /\ daemon' = [daemon EXCEPT !.mode = "head"]
    /\ UNCHANGED <<jobs, config, now, pc, due_jobs, idx, executed, ret,
                   start_time, started, hist, last_exec, others>>

\* run: run_once raises an Exception, at its start or between two jobs;
\* `except Exception` logs it and sleeps the poll interval
DaemonTickRaisesFatal ==
    /\ \/ daemon.mode = "head" /\ daemon.running
       \/ daemon.mode = "tick" /\ pc = "loop"
    /\ pc' = "idle"
    /\ daemon' = [daemon EXCEPT !.mode = "stopped", !.raised = @ + 1]
    /\ UNCHANGED <<jobs, config, now, due_jobs, idx, executed, ret,
                   start_time, started, hist, last_exec, others>>
DaemonTickRaises ==
    /\ \/ daemon.mode = "head" /\ daemon.running
       \/ daemon.mode = "tick" /\ pc = "loop"
    /\ pc' = "idle"
    /\ daemon' = [daemon EXCEPT !.mode = "error_sleep",
                                !.wake = now + config.poll_interval_seconds,
                                !.raised = @ + 1]
    /\ UNCHANGED <<jobs, config, now, due_jobs, idx, executed, ret,
                   start_time, started, hist, last_exec, others>>

\* stop(), called from another thread or from a signal handler
DaemonStop ==
    /\ daemon.mode \in {"head", "tick", "sleep", "error_sleep"}
    /\ daemon.running
    /\ daemon' = [daemon EXCEPT !.running = FALSE, !.request = "stop"]
    /\ UNCHANGED <<jobs, config, now, pc, due_jobs, idx, executed, ret,
                   start_time, started, hist, last_exec, others>>

\* KeyboardInterrupt is raised in the thread of run.  It is no Exception, so
\* neither execute_job nor run_once catches it: in run_once or in the sleep
\* of the try block it reaches `except KeyboardInterrupt`, which clears
\* _running and lets the loop end; in the sleep of the handler of
\* `except Exception` it leaves run uncaught.
DaemonInterrupt ==
    /\ daemon.mode \in {"head", "tick", "sleep", "error_sleep"}
    /\ daemon' = [daemon EXCEPT
                     !.mode = "stopped",
                     !.running = IF daemon.mode = "error_sleep" THEN @ ELSE FALSE,
                     !.request = "interrupt"]
    /\ pc' = "idle"
    /\ UNCHANGED <<jobs, config, now, due_jobs, idx, executed, ret,
                   start_time, started, hist, last_exec, others>>

\* run: `while self._running:` is false
DaemonExit ==
    /\ daemon.mode = "head"
    /\ ~daemon.running
    /\ daemon' = [daemon EXCEPT !.mode = "stopped"]
    /\ UNCHANGED <<jobs, config, now, pc, due_jobs, idx, executed, ret,
                   start_time, started, hist, last_exec, others>>

\* time passes while run sleeps or while a command runs; a sleep does not
\* last longer than the poll interval
DaemonHalfMinute ==
    /\ daemon.mode \in {"sleep", "error_sleep"} \/ pc = "exec"
    /\ daemon.mode \in {"sleep", "error_sleep"}
          => now + Minute \div 2 <= daemon.wake
    /\ Advance(Minute \div 2, MaxRunTime)

----------------------------------------------------------------------------
(* Job.from_yaml and TaskScheduler.load_jobs *)

\* required = ["id", "name", "command", "schedule"]
Required == <<"id", "name", "command", "schedule">>

\* the keys of a job file besides the required ones, and its priority value
OptionalParts ==
    { [keys |-> {}, priority |-> "none"],
      [keys |-> {"priority"}, priority |-> "high"],
      [keys |-> {"enabled", "max_retries"}, priority |-> "none"],
      [keys |-> {"priority"}, priority |-> "asap"],
      [keys |-> {"priority", "enabled", "max_retries", "timeout_seconds",
                 "owner"},
       priority |-> "urgent"] }

\* what yaml.safe_load gives for a job file: a dict with some keys, or
\* something that is no dict, or a YAMLError
DictDocs ==
    LET Doc(R, id, o) ==
            [kind |-> "dict", keys |-> R \cup o.keys, id |-> id,
             schedule |-> EveryMinute, priority |-> o.priority,
             enabled |-> FALSE, max_retries |-> 2, timeout_seconds |-> 30]
    IN  { Doc({"id", "name", "command", "schedule"}, id, o) :
              id \in {"j1", "j2"}, o \in OptionalParts }
        \cup
        { Doc(R, "j1", o) :
              R \in (SUBSET {"id", "name", "command", "schedule"})
                        \ {{"id", "name", "command", "schedule"}},
              o \in {p \in OptionalParts : p.priority \in {"none", "asap"}} }

OtherDocs ==
    { [kind |-> k, keys |-> {}, id |-> "j1", schedule |-> EveryMinute,
       priority |-> "none", enabled |-> FALSE, max_retries |-> 2,
       timeout_seconds |-> 30] : k \in {"scalar", "unparsable"} }

Docs == DictDocs \cup OtherDocs

\* Priority(value): the value is one of the four priorities
IsPriority(v) == \E i \in 1..Len(PriorityOrder) : PriorityOrder[i] = v

\* the outcome of Job.from_yaml: the Job, or the error raised
Loaded(job) ==
    [error |-> "none", missing |-> <<>>, invalid |-> None, job |-> Some(job)]
Raised(error, missing, invalid) ==
    [error |-> error, missing |-> missing, invalid |-> invalid, job |-> None]

\* Job.from_yaml
from_yaml_first_missing(data) ==
    IF data.kind = "unparsable" THEN Raised("YAMLError", <<>>, None)
    ELSE IF data.kind # "dict" THEN Raised("expected dict", <<>>, None)
    ELSE LET NotIn(f) == f \notin data.keys
             missing == SelectSeq(Required, NotIn)
         IN  IF missing # <<>>
             THEN Raised("Missing required fields", <<Head(missing)>>, None)
             ELSE IF "priority" \in data.keys
                     /\ ~IsPriority(data.priority)
             THEN Raised("Invalid priority", <<>>, Some(data.priority))
             ELSE Loaded(NewJob(
                      data.id, data.schedule,
                      IF "priority" \in data.keys THEN data.priority
                      ELSE "medium",
                      IF "enabled" \in data.keys THEN data.enabled ELSE TRUE,
                      IF "max_retries" \in data.keys THEN data.max_retries
                      ELSE 0,
                      IF "timeout_seconds" \in data.keys
                      THEN Some(data.timeout_seconds) ELSE None))
from_yaml(data) ==
    IF data.kind = "unparsable" THEN Raised("YAMLError", <<>>, None)
    ELSE IF data.kind # "dict" THEN Raised("expected dict", <<>>, None)
    ELSE LET NotIn(f) == f \notin data.keys
             missing == SelectSeq(Required, NotIn)
         IN  IF missing # <<>>
             THEN Raised("Missing required fields", missing, None)
             ELSE IF "priority" \in data.keys
                     /\ ~IsPriority(data.priority)
             THEN Raised("Invalid priority", <<>>, Some(data.priority))
             ELSE Loaded(NewJob(
                      data.id, data.schedule,
                      IF "priority" \in data.keys THEN data.priority
                      ELSE "medium",
                      IF "enabled" \in data.keys THEN data.enabled ELSE TRUE,
                      IF "max_retries" \in data.keys THEN data.max_retries
                      ELSE 0,
                      IF "timeout_seconds" \in data.keys
                      THEN Some(data.timeout_seconds) ELSE None))

\* self.jobs[job.id] = job: a new key goes last, a known key keeps its place
PutJob(js, job) ==
    IF \E i \in 1..Len(js) : js[i].id = job.id
    THEN [i \in 1..Len(js) |-> IF js[i].id = job.id THEN job ELSE js[i]]
    ELSE Append(js, job)

\* the file load_jobs is at
CurrentFile == Val(loader.dir)[loader.pos]

\* load_jobs up to the for loop; a missing directory returns 0
LoadJobsBegin ==
    /\ loader.phase = "ready"
    /\ loader' = IF IsNone(loader.dir)
                 THEN [loader EXCEPT !.phase = "done", !.ret = 0]
                 ELSE [loader EXCEPT !.phase = "loop", !.pos = 1, !.loaded = 0]
    /\ UNCHANGED <<jobs, config, now, pc, due_jobs, idx, executed, ret,
                   start_time, started, hist, last_exec, daemon, lib_vars>>

\* load_jobs, loop body: Job.from_yaml returns a Job
LoadJobsFileLoaded ==
    /\ loader.phase = "loop"
    /\ loader.pos <= Len(Val(loader.dir))
    /\ from_yaml(CurrentFile).error = "none"
    /\ jobs' = PutJob(jobs, Val(from_yaml(CurrentFile).job))
    /\ hist' = [j \in 1..Len(jobs') |-> IF j <= Len(jobs) THEN hist[j] ELSE NoHist]
    /\ loader' = [loader EXCEPT !.loaded = @ + 1, !.pos = @ + 1,
                                !.results = Append(@, from_yaml(CurrentFile))]
    /\ UNCHANGED <<config, now, pc, due_jobs, idx, executed, ret, start_time,
                   started, last_exec, daemon, lib_vars>>

\* load_jobs, loop body: Job.from_yaml raises, `except Exception` logs it
LoadJobsFileFailsAborting ==
    /\ loader.phase = "loop"
    /\ loader.pos <= Len(Val(loader.dir))
    /\ from_yaml(CurrentFile).error # "none"
    /\ loader' = [loader EXCEPT !.phase = "done", !.ret = loader.loaded,
                                !.results = Append(@, from_yaml(CurrentFile))]
    /\ UNCHANGED <<jobs, config, now, pc, due_jobs, idx, executed, ret,
                   start_time, started, hist, last_exec, daemon, lib_vars>>
LoadJobsFileFails ==
    /\ loader.phase = "loop"
    /\ loader.pos <= Len(Val(loader.dir))
    /\ from_yaml(CurrentFile).error # "none"
    /\ loader' = [loader EXCEPT !.pos = @ + 1,
                                !.results = Append(@, from_yaml(CurrentFile))]
    /\ UNCHANGED <<jobs, config, now, pc, due_jobs, idx, executed, ret,
                   start_time, started, hist, last_exec, daemon, lib_vars>>

\* load_jobs after the for loop: return loaded
LoadJobsReturn ==
    /\ loader.phase = "loop"
    /\ loader.pos > Len(Val(loader.dir))
    /\ loader' = [loader EXCEPT !.phase = "done", !.ret = loader.loaded]
    /\ UNCHANGED <<jobs, config, now, pc, due_jobs, idx, executed, ret,
                   start_time, started, hist, last_exec, daemon, lib_vars>>

----------------------------------------------------------------------------
(* StateTracker *)

\* the sources and item ids the tracker is called with
TrackSources == {"a", "b"}
TrackItems == {"i1", "i2", "i3"}

\* self.processed.get(source, set())
ProcessedOf(t, source) ==
    IF source \in DOMAIN t.processed THEN t.processed[source] ELSE {}

\* StateTracker.is_processed
is_processed(t, source, item_id) == item_id \in ProcessedOf(t, source)

\* StateTracker.get_processed_count
get_processed_count(t, source) == Cardinality(ProcessedOf(t, source))

\* list(items) for a set: its elements, each once, in some order
ListsOf(S) ==
    {l \in [1..Cardinality(S) -> S] : \A x \in S : \E k \in DOMAIN l : l[k] = x}

\* set(items) for a list
SetOf(l) == {l[k] : k \in DOMAIN l}

\* StateTracker._save: the JSON documents it may write
Saved(t) ==
    { [processed |-> p, timestamps |-> t.timestamps] :
          p \in {q \in [DOMAIN t.processed ->
                            UNION {ListsOf(t.processed[s]) : s \in DOMAIN t.processed}] :
                    \A s \in DOMAIN t.processed : q[s] \in ListsOf(t.processed[s])} }

\* StateTracker._load: processed and timestamps read from the file
Loaded_processed(file) ==
    IF IsNone(file) THEN [s \in {} |-> {}]
    ELSE [s \in DOMAIN Val(file).processed |-> SetOf(Val(file).processed[s])]
Loaded_timestamps(file) ==
    IF IsNone(file) THEN [s \in {} |-> {}] ELSE Val(file).timestamps

\* StateTracker.mark_processed, in memory
Marked(t, source, item_id, ts) ==
    LET old == IF source \in DOMAIN t.timestamps THEN t.timestamps[source]
               ELSE [i \in {} |-> 0]
    IN  [t EXCEPT
            !.processed =
                [s \in DOMAIN t.processed \cup {source} |->
                    IF s = source THEN ProcessedOf(t, s) \cup {item_id}
                    ELSE t.processed[s]],
            !.timestamps =
                [s \in DOMAIN t.timestamps \cup {source} |->
                    IF s = source
                    THEN [i \in DOMAIN old \cup {item_id} |->
                             IF i = item_id THEN ts ELSE old[i]]
                    ELSE t.timestamps[s]],
            !.log = @ \cup {<<source, item_id>>},
            !.calls = @ + 1,
            !.fresh = FALSE]

\* StateTracker.mark_processed: the sets are updated and the file is written
mark_processed_unsaved(source, item_id) ==
    /\ tracker' = Marked(tracker, source, item_id, now)
    /\ UNCHANGED state_file
mark_processed(source, item_id) ==
    /\ tracker' = Marked(tracker, source, item_id, now)
    /\ state_file' \in {Some(d) : d \in Saved(tracker')}

\* a caller marks an item
MarkProcessed ==
    /\ tracker.calls < MaxMarks
    /\ \E source \in TrackSources, item_id \in TrackItems :
          mark_processed(source, item_id)
    /\ UNCHANGED <<jobs, config, now, pc, due_jobs, idx, executed, ret,
                   start_time, started, hist, last_exec, daemon, loader, orch>>

\* StateTracker(state_file): a new tracker is opened on the file
TrackerOpen ==
    /\ ~tracker.fresh
    /\ tracker' = [tracker EXCEPT !.processed = Loaded_processed(state_file),
                                  !.timestamps = Loaded_timestamps(state_file),
                                  !.fresh = TRUE]
    /\ UNCHANGED <<jobs, config, now, pc, due_jobs, idx, executed, ret,
                   start_time, started, hist, last_exec, daemon, loader,
                   state_file, orch>>

InitState == InitWith({<<>>}, {1})

NextState ==
    \/ MarkProcessed
    \/ TrackerOpen

----------------------------------------------------------------------------
(* InputSourceOrchestrator *)

\* InputItem(source, item_id, priority, ...)
InputItem(source, item_id, priority) ==
    [source |-> source, item_id |-> item_id, priority |-> priority]

\* self.last_poll[source_name] = datetime.min
DatetimeMin == -1000000

\* the orchestrators: the sources in the order of the dict, the items the
\* poll() of each source returns, and poll_intervals
OrchConfigs ==
    { [sources |-> <<"a", "b">>,
       feed |-> [s \in {"a", "b"} |->
                   IF s = "a"
                   THEN << InputItem("a", "i1", "low"),
                           InputItem("a", "i2", "urgent"),
                           InputItem("a", "i3", "someday") >>
                   ELSE << InputItem("b", "i1", "high"),
                           InputItem("b", "i2", "low"),
                           InputItem("b", "i3", "urgent") >>],
       poll_intervals |-> [s \in {"a"} |-> 60]],
      [sources |-> <<"a">>,
       feed |-> [s \in {"a"} |-> << InputItem("a", "i1", "medium"),
                                    InputItem("a", "i1", "medium") >>],
       poll_intervals |-> [s \in {"a"} |-> 60]],
      [sources |-> <<"a", "b">>,
       feed |-> [s \in {"a", "b"} |->
                   IF s = "a"
                   THEN << InputItem("b", "i1", "high"),
                           InputItem("c", "i2", "low") >>
                   ELSE <<>>],
       poll_intervals |-> [s \in {"a", "b"} |-> 60]] }

\* InputSourceOrchestrator._should_poll
should_poll(o, source_name, t) ==
    LET interval == IF source_name \in DOMAIN o.poll_intervals
                    THEN o.poll_intervals[source_name] ELSE 300
    IN  t - o.last_poll[source_name] >= interval

\* poll_source: the items that are not processed yet
RECURSIVE NewItems(_, _, _)
NewItems(t, source_name, items) ==
    IF items = <<>> THEN <<>>
    ELSE IF is_processed(t, source_name, Head(items).item_id)
         THEN NewItems(t, source_name, Tail(items))
         ELSE <<Head(items)>> \o NewItems(t, source_name, Tail(items))

\* poll_cycle: the sort key {"urgent": 0, ...}.get(x.priority, 4)
ItemRankUnknownFirst(priority) ==
    CASE priority = "urgent" -> 0 [] priority = "high" -> 1
      [] priority = "medium" -> 2 [] priority = "low" -> 3 [] OTHER -> -1
ItemRank(priority) ==
    CASE priority = "urgent" -> 0 [] priority = "high" -> 1
      [] priority = "medium" -> 2 [] priority = "low" -> 3 [] OTHER -> 4

\* all_items.sort(key=...): a stable sort
RECURSIVE InsertItem(_, _)
InsertItem(sorted, item) ==
    IF sorted = <<>> THEN <<item>>
    ELSE IF ItemRank(item.priority) < ItemRank(Head(sorted).priority)
         THEN <<item>> \o sorted
         ELSE <<Head(sorted)>> \o InsertItem(Tail(sorted), item)
RECURSIVE SortItems(_)
SortItems(items) ==
    IF items = <<>> THEN <<>>
    ELSE InsertItem(SortItems(SubSeq(items, 1, Len(items) - 1)),
                    items[Len(items)])

\* the source poll_cycle is at
CurrentSource == orch.sources[orch.src_pos]

\* poll_cycle after a source: the next source, or the sort by priority and
\* then the items
AfterSource(o) ==
    IF o.src_pos < Len(o.sources) THEN [o EXCEPT !.src_pos = @ + 1]
    ELSE [o EXCEPT !.src_pos = @ + 1, !.phase = "processing",
                   !.unsorted = o.all_items,
                   !.all_items = SortItems(o.all_items), !.item_pos = 1]

\* poll_cycle is called
PollCycleBegin ==
    /\ orch.phase = "idle"
    /\ orch.cycles < MaxCycles
    /\ orch' = [orch EXCEPT !.phase = "polling", !.src_pos = 1,
                            !.all_items = <<>>, !.unsorted = <<>>,
                            !.polled = <<>>]
    /\ UNCHANGED <<jobs, config, now, pc, due_jobs, idx, executed, ret,
                   start_time, started, hist, last_exec, daemon, loader,
                   tracker, state_file>>

\* poll_cycle: _should_poll is false for the source
PollSourceSkips ==
    /\ orch.phase = "polling"
    /\ ~should_poll(orch, CurrentSource, now)
    /\ orch' = AfterSource(orch)
    /\ UNCHANGED <<jobs, config, now, pc, due_jobs, idx, executed, ret,
                   start_time, started, hist, last_exec, daemon, loader,
                   tracker, state_file>>

\* poll_cycle: poll_source returns the new items of the source
PollSourceReturns ==
    /\ orch.phase = "polling"
    /\ should_poll(orch, CurrentSource, now)
    /\ orch' = AfterSource(
                  [orch EXCEPT
                      !.all_items = @ \o NewItems(tracker, CurrentSource,
                                                  orch.feed[CurrentSource]),
                      !.last_poll[CurrentSource] = now,
                      !.polled = Append(@, CurrentSource)])
    /\ UNCHANGED <<jobs, config, now, pc, due_jobs, idx, executed, ret,
                   start_time, started, hist, last_exec, daemon, loader,
                   tracker, state_file>>

\* poll_cycle: source.poll() raises, poll_source logs it and returns []
PollSourceRaises ==
    /\ orch.phase = "polling"
    /\ should_poll(orch, CurrentSource, now)
    /\ orch' = AfterSource([orch EXCEPT !.polled = Append(@, CurrentSource)])
    /\ UNCHANGED <<jobs, config, now, pc, due_jobs, idx, executed, ret,
                   start_time, started, hist, last_exec, daemon, loader,
                   tracker, state_file>>

\* the item poll_cycle is at
CurrentItem == orch.all_items[orch.item_pos]

\* poll_cycle: process_item marks the item under item.source, looks up
\* self.sources[item.source] and awaits its acknowledge; outcome says how
\* far it got before the except clause
ProcessItemTo(outcome) ==
    /\ orch.phase = "processing"
    /\ orch.item_pos <= Len(orch.all_items)
    /\ mark_processed(CurrentItem.source, CurrentItem.item_id)
    /\ orch' = [orch EXCEPT
                   !.processed = Append(@, CurrentItem),
                   !.outcomes = Append(@, outcome),
                   !.acknowledged =
                       IF outcome = "acknowledged"
                       THEN [@ EXCEPT ![CurrentItem.source] =
                                         Append(@, CurrentItem.item_id)]
                       ELSE @,
                   !.item_pos = @ + 1]
    /\ UNCHANGED <<jobs, config, now, pc, due_jobs, idx, executed, ret,
                   start_time, started, hist, last_exec, daemon, loader>>

\* process_item returns True; an item.source that is no key of self.sources
\* is a KeyError after the mark, and process_item returns False
ProcessItem ==
    /\ orch.phase = "processing"
    /\ orch.item_pos <= Len(orch.all_items)
    /\ ProcessItemTo(IF CurrentItem.source \in SetOf(orch.sources)
                     THEN "acknowledged" ELSE "key_error")

\* source.acknowledge raises after the mark, and process_item returns False
ProcessItemAcknowledgeRaises ==
    /\ orch.phase = "processing"
    /\ orch.item_pos <= Len(orch.all_items)
    /\ CurrentItem.source \in SetOf(orch.sources)
    /\ ProcessItemTo("acknowledge_raised")

\* poll_cycle returns
PollCycleEnd ==
    /\ orch.phase = "processing"
    /\ orch.item_pos > Len(orch.all_items)
    /\ orch' = [orch EXCEPT !.phase = "idle", !.cycles = @ + 1]
    /\ UNCHANGED <<jobs, config, now, pc, due_jobs, idx, executed, ret,
                   start_time, started, hist, last_exec, daemon, loader,
                   tracker, state_file>>

\* time passes between two poll cycles
OrchHalfMinute ==
    /\ orch.phase = "idle"
    /\ Advance(Minute \div 2, MaxOrchTime)

\* InputSourceOrchestrator(sources, state_file, poll_intervals) on a new
\* state file
InitOrch ==
    /\ jobs = <<>>
    /\ config = DefaultConfig
    /\ now = 0
    /\ pc = "idle"
    /\ due_jobs = <<>>
    /\ idx = 0
    /\ executed = 0
    /\ ret = 0
    /\ start_time = 0
    /\ started = <<>>
    /\ hist = <<>>
    /\ last_exec = NoExec
    /\ daemon = NoDaemon
    /\ loader = NoLoader
    /\ tracker = NoTracker
    /\ state_file = None
    /\ \E c \in OrchConfigs :
          orch = [NoOrch EXCEPT
                     !.sources = c.sources, !.feed = c.feed,
                     !.poll_intervals = c.poll_intervals,
                     !.last_poll = [s \in SetOf(c.sources) |-> DatetimeMin],
                     !.acknowledged = [s \in SetOf(c.sources) |-> <<>>],
                     !.phase = "idle"]

NextOrch ==
    \/ PollCycleBegin
    \/ PollSourceSkips
    \/ PollSourceReturns
    \/ PollSourceRaises
    \/ ProcessItem
    \/ ProcessItemAcknowledgeRaises
    \/ PollCycleEnd
    \/ OrchHalfMinute

\* a caller of the library resets a job between two ticks: job.reset_state()
ResetState ==
    /\ pc = "idle"
    /\ \E j \in 1..Len(jobs) :
          /\ jobs' = [jobs EXCEPT ![j] = reset_state(@)]
          /\ hist' = [hist EXCEPT ![j].outcome = "reset", ![j].streak = 0]
    /\ UNCHANGED <<config, now, due_jobs, idx, executed, ret, start_time,
                   started, last_exec, pc, daemon, others>>

NextReset ==
    \/ RunOnceBegin
    \/ ExecuteBegin
    \/ ExecuteExitZeroAnyOutput
    \/ ExecuteExitNonZeroAnyOutput
    \/ ExecuteTimeout
    \/ ExecuteError
    \/ RunOnceReturn
    \/ ResetState
    \/ Tick

----------------------------------------------------------------------------
(* TaskScheduler.run as an endless loop: run_once, sleep, run_once, ...
   The commands return at once, so a tick is one step.  The clock is kept
   within MaxLoopTime by moving the origin of time forward by two minutes,
   a multiple of the period of every schedule, which leaves every due-check
   as it is. *)

\* a time seen from an origin two minutes later.  A last_run that lies
\* before the new origin is kept one minute before it.  The origin moves
\* only when the clock has reached MaxLoopTime, four minutes, so from the
\* new origin the clock reads two minutes or more, the previous firing of
\* every schedule is at or after the origin, and the due-check of such a
\* job is true before and after the move
Shifted(t) ==
    IF t - 2 * Minute < 0 THEN 0 - Minute ELSE t - 2 * Minute

\* a job seen from the later origin
ShiftedJob(job) ==
    [job EXCEPT
        !.last_run = IF IsNone(@) THEN @ ELSE Some(Shifted(Val(@))),
        !.last_result =
            IF IsNone(@) THEN @
            ELSE Some([Val(@) EXCEPT !.timestamp = Shifted(@)])]

\* run after self._running = True and self.load_jobs(), never stopped
InitLoop ==
    /\ jobs \in JobSets
    /\ \E c \in {1, 2} : config = [DefaultConfig EXCEPT !.max_concurrent_jobs = c]
    /\ now = 0
    /\ pc = "idle"
    /\ due_jobs = <<>>
    /\ idx = 0
    /\ executed = 0
    /\ ret = 0
    /\ start_time = 0
    /\ started = <<>>
    /\ hist = [j \in 1..Len(jobs) |-> NoHist]
    /\ last_exec = NoExec
    /\ daemon = [NoDaemon EXCEPT !.mode = "head", !.running = TRUE,
                                 !.left_out = [j \in 1..Len(jobs) |-> 0]]
    /\ InitOthers

\* run: one run_once.  Every job of due_jobs[:max_concurrent_jobs] is
\* executed, its command exits with status 0 or 1 and the result is
\* recorded; left_out counts, for each job, the ticks in a row that found it
\* due and did not execute it (up to MaxDeferrals)
LoopTick ==
    /\ daemon.mode = "head"
    /\ daemon.running
    /\ pc = "idle"
    /\ due_jobs' = get_jobs_due(jobs, now)
    /\ started' = SliceTo(due_jobs', config.max_concurrent_jobs)
    /\ \E code \in [1..Len(started') -> {0, 1}] :
          /\ \A k \in 1..Len(started') :
                code[k] = 1 => jobs[started'[k]].retry_count < MaxLoopRetries
          /\ jobs' = [j \in 1..Len(jobs) |->
                        IF \E k \in 1..Len(started') : started'[k] = j
                        THEN LET k == CHOOSE k \in 1..Len(started') :
                                         started'[k] = j
                                 o == CHOOSE o \in PlainOutputs : TRUE
                             IN  record_result(
                                    [jobs[j] EXCEPT !.state = "running"],
                                    ExitResult(code[k], o.stdout, o.stderr, 0))
                        ELSE jobs[j]]
    /\ IF due_jobs' = <<>>
       THEN /\ ret' = 0
            /\ UNCHANGED <<idx, executed>>
       ELSE /\ ret' = Len(started')
            /\ executed' = Len(started')
            /\ idx' = Len(started') + 1
    /\ daemon' = [daemon EXCEPT
                     !.mode = "sleep",
                     !.wake = now + config.poll_interval_seconds,
                     !.left_out =
                        [j \in 1..Len(jobs) |->
                            IF \E k \in 1..Len(started') : started'[k] = j
                            THEN 0
                            ELSE IF \E k \in 1..Len(due_jobs') : due_jobs'[k] = j
                            THEN IF @[j] < MaxDeferrals THEN @[j] + 1 ELSE @[j]
                            ELSE 0]]
    /\ UNCHANGED <<config, now, pc, start_time, hist, last_exec, others>>

\* run: time.sleep(poll_interval_seconds) returns
LoopSleep ==
    /\ daemon.mode = "sleep"
    /\ IF daemon.wake < MaxLoopTime
       THEN /\ now' = daemon.wake
            /\ jobs' = jobs
       ELSE /\ now' = Shifted(daemon.wake)
            /\ jobs' = [j \in 1..Len(jobs) |-> ShiftedJob(jobs[j])]
    /\ daemon' = [daemon EXCEPT !.mode = "head", !.wake = now']
    /\ UNCHANGED <<config, pc, due_jobs, idx, executed, ret, start_time,
                   started, hist, last_exec, others>>

NextLoop ==
    \/ LoopTick
    \/ LoopSleep

Next ==
    \/ RunOnceBegin
    \/ ExecuteBegin
    \/ ExecuteExitZero
    \/ ExecuteExitNonZero
    \/ ExecuteTimeout
    \/ ExecuteError
    \/ RunOnceReturn
    \/ HalfMinute

NextFine ==
    \/ RunOnceBegin
    \/ ExecuteBegin
    \/ ExecuteExitZeroAnyOutput
    \/ ExecuteExitNonZeroAnyOutput
    \/ ExecuteTimeout
    \/ ExecuteError
    \/ RunOnceReturn
    \/ Tick

NextRaise ==
    \/ RunOnceBegin
    \/ ExecuteBegin
    \/ ExecuteExitZero
    \/ ExecuteExitNonZero
    \/ ExecuteTimeout
    \/ ExecuteError
    \/ ExecuteRaises
    \/ RunOnceReturn
    \/ ShortHalfMinute

NextRun ==
    \/ DaemonRunOnce
    \/ ExecuteBegin
    \/ ExecuteExitZero
    \/ ExecuteExitNonZero
    \/ ExecuteTimeout
    \/ ExecuteError
    \/ RunOnceReturn
    \/ DaemonSleep
    \/ DaemonWake
    \/ DaemonTickRaises
    \/ DaemonStop
    \/ DaemonInterrupt
    \/ DaemonExit
    \/ DaemonHalfMinute

\* the job mapping before load_jobs, and the jobs directory: missing, or
\* the documents of its *.yaml files in the order of glob
InitLoad ==
    /\ jobs \in {<<>>, << NewJob("j1", EveryTwoMinutes, "low", TRUE, 1, None) >>}
    /\ config = DefaultConfig
    /\ now = 0
    /\ pc = "idle"
    /\ due_jobs = <<>>
    /\ idx = 0
    /\ executed = 0
    /\ ret = 0
    /\ start_time = 0
    /\ started = <<>>
    /\ hist = [j \in 1..Len(jobs) |-> NoHist]
    /\ last_exec = NoExec
    /\ daemon = NoDaemon
    /\ InitLib
    /\ \E dir \in {None} \cup {Some(d) : d \in UNION {[1..n -> Docs] : n \in 0..MaxFiles}} :
          loader = [NoLoader EXCEPT !.phase = "ready", !.dir = dir,
                                    !.before = jobs]

NextLoad ==
    \/ LoadJobsBegin
    \/ LoadJobsFileLoaded
    \/ LoadJobsFileFails
    \/ LoadJobsReturn

Spec == Init /\ [][Next]_vars

SpecFine == InitFine /\ [][NextFine]_vars

SpecRun == InitRun /\ [][NextRun]_vars

SpecLoad == InitLoad /\ [][NextLoad]_vars

SpecState == InitState /\ [][NextState]_vars

SpecOrch == InitOrch /\ [][NextOrch]_vars

\* the loop of run neither stops nor blocks: after a tick it sleeps, after
\* the sleep it ticks
SpecLoop ==
    InitLoop /\ [][NextLoop]_vars /\ WF_vars(LoopTick) /\ WF_vars(LoopSleep)

SpecReset == InitFine /\ [][NextReset]_vars

SpecRaise == InitRaise /\ [][NextRaise]_vars

----------------------------------------------------------------------------
(* Vocabulary of the properties *)

JobIds == 1..Len(jobs)
Range(s) == {s[k] : k \in 1..Len(s)}
HasRun(j) == ~IsNone(jobs[j].last_run)

\* rank of a priority: urgent = 0 ... low = 3
Rank(p) ==
    CASE p = "urgent" -> 0 [] p = "high" -> 1 [] p = "medium" -> 2
      [] p = "low" -> 3

\* the firing times of a parsable expression within the horizon
Firings(expr) ==
    {k * (IF expr = EveryMinute THEN 60 ELSE 120) : k \in 0..(MaxFineTime \div 60)}

\* text m is text raw without its leading and trailing blanks
IsTrimOf(m, raw) ==
    /\ m = <<>> \/ (m[1] # " " /\ m[Len(m)] # " ")
    /\ \E a \in 0..Len(raw) :
          /\ a + Len(m) <= Len(raw)
          /\ SubSeq(raw, a + 1, a + Len(m)) = m
          /\ \A k \in 1..Len(raw) :
                (k <= a \/ k > a + Len(m)) => raw[k] = " "

\* a job file that holds a valid definition
Loadable(d) ==
    /\ d.kind = "dict"
    /\ {"id", "name", "command", "schedule"} \subseteq d.keys
    /\ "priority" \in d.keys => d.priority \in {"urgent", "high", "medium", "low"}

\* the first n entries of s (all of s when it has fewer, none when n <= 0)
FirstN(s, n) == SubSeq(s, 1, IF n < Len(s) THEN n ELSE Len(s))

----------------------------------------------------------------------------
(* C1 *)

\* C1: a job that has never run is due for every cron expression string it
\* may carry, at every time.
C1_NeverRunAlwaysDue ==
    \A j \in JobIds : \A t \in 0..MaxTime :
        IsNone(jobs[j].last_run) => is_job_due(jobs[j], t)

\* C1 as amended: a job that has never run is due at every time when its
\* cron expression can be parsed (one that cannot be parsed is never due).
C1_NeverRunDueWhenParsable ==
    \A j \in JobIds : \A t \in 0..MaxTime :
        IsNone(jobs[j].last_run) =>
            (is_job_due(jobs[j], t) <=> jobs[j].schedule # BadSchedule)

\* a tick after time 0 has selected a job that never ran
C1_Witness ==
    /\ pc = "loop"
    /\ now > 0
    /\ \E k \in 1..Len(due_jobs) : IsNone(jobs[due_jobs[k]].last_run)

----------------------------------------------------------------------------
(* C2 *)

\* C2: for a schedule firing every minute, at every time now: last_run 90
\* seconds before now is due, last_run 10 seconds before now is not due.
C2_NinetyDueTenNotDue ==
    \A j \in JobIds :
        (jobs[j].schedule = EveryMinute /\ HasRun(j)) =>
            /\ Val(jobs[j].last_run) = now - 90 => is_job_due(jobs[j], now)
            /\ Val(jobs[j].last_run) = now - 10 => ~is_job_due(jobs[j], now)

\* C2 as amended: last_run 90 seconds before now is due; last_run 10 seconds
\* before now is due exactly when now is 1 to 9 seconds past a whole minute
\* (a firing lies strictly between last_run and now), and not due otherwise.
C2_NinetyDueTenDueOnlyPastMinute ==
    \A j \in JobIds :
        (jobs[j].schedule = EveryMinute /\ HasRun(j)) =>
            /\ Val(jobs[j].last_run) = now - 90 => is_job_due(jobs[j], now)
            /\ Val(jobs[j].last_run) = now - 10 =>
                  (is_job_due(jobs[j], now) <=> (now % 60) \in 1..9)

\* an every-minute job that ran 10 seconds ago and is not due
C2_Witness ==
    \E j \in JobIds :
        /\ jobs[j].schedule = EveryMinute
        /\ jobs[j].last_run = Some(now - 10)
        /\ jobs[j].state # "running"
        /\ ~is_job_due(jobs[j], now)

----------------------------------------------------------------------------
(* C3 *)

\* C3: get_jobs_due returns exactly the enabled, not running, due jobs, each
\* once, in ascending priority rank, jobs of equal priority in insertion
\* order; jobs inserted as low, urgent, medium, high and all due come out as
\* urgent, high, medium, low.
C3_SortedByPriorityStable ==
    LET d == get_jobs_due(jobs, now) IN
    /\ Range(d) = {j \in JobIds : /\ jobs[j].enabled
                                  /\ jobs[j].state # "running"
                                  /\ is_job_due(jobs[j], now)}
    /\ Cardinality(Range(d)) = Len(d)
    /\ \A a, b \in 1..Len(d) :
          a < b =>
             \/ Rank(jobs[d[a]].priority) < Rank(jobs[d[b]].priority)
             \/ /\ Rank(jobs[d[a]].priority) = Rank(jobs[d[b]].priority)
                /\ d[a] < d[b]
    /\ (/\ [j \in JobIds |-> jobs[j].priority] = <<"low", "urgent", "medium", "high">>
        /\ Len(d) = 4)
       => [k \in 1..4 |-> jobs[d[k]].id] = <<"urgent", "high", "medium", "low">>

\* a tick selected three jobs or more: a later insertion comes first, and two
\* jobs of one priority are among them
C3_Witness ==
    /\ pc = "loop"
    /\ Len(due_jobs) >= 3
    /\ \E a, b \in 1..Len(due_jobs) : a < b /\ due_jobs[a] > due_jobs[b]
    /\ \E a, b \in 1..Len(due_jobs) :
          a < b /\ jobs[due_jobs[a]].priority = jobs[due_jobs[b]].priority

----------------------------------------------------------------------------
(* C4 *)

\* C4: the retry counter is the number of consecutive failed executions since
\* the last successful one; with max_retries = 2, after one failure it is 1
\* and can_retry holds, after a second consecutive failure it is 2 and
\* can_retry does not hold, and after a success it is 0.
C4_RetryCountIsFailureStreak ==
    \A j \in JobIds :
        /\ jobs[j].retry_count = hist[j].streak
        /\ (jobs[j].max_retries = 2 /\ jobs[j].state # "running") =>
              /\ hist[j].streak = 1 => (jobs[j].retry_count = 1 /\ can_retry(jobs[j]))
              /\ hist[j].streak = 2 => (jobs[j].retry_count = 2 /\ ~can_retry(jobs[j]))
              /\ hist[j].outcome = "exit0" =>
                    (jobs[j].retry_count = 0 /\ ~can_retry(jobs[j]))

\* a job with max_retries = 2 has succeeded right after two failures in a row
C4_Witness ==
    \E j \in JobIds :
        /\ jobs[j].max_retries = 2
        /\ hist[j].before = 2
        /\ hist[j].outcome = "exit0"
        /\ jobs[j].retry_count = 0

----------------------------------------------------------------------------
(* C5 *)

\* C5: when the command does not finish within its timeout, the result is a
\* failure whose duration_seconds is the timeout given to the subprocess (not
\* the time that passed), whose message names the timeout, and the job ends
\* in state failed.
C5_TimeoutResult ==
    \A j \in JobIds :
        hist[j].outcome = "timeout" =>
            /\ jobs[j].state = "failed"
            /\ HasRun(j)
            /\ ~IsNone(jobs[j].last_result)
            /\ ~Val(jobs[j].last_result).success
            /\ Val(jobs[j].last_result).duration_seconds = hist[j].timeout
            /\ Val(jobs[j].last_result).message =
                  <<"Job timed out after", hist[j].timeout>>
            /\ Val(jobs[j].last_result).timestamp = Val(jobs[j].last_run)

\* a command was stopped by its timeout after running longer than the timeout
C5_Witness ==
    \E j \in JobIds :
        /\ hist[j].outcome = "timeout"
        /\ pc = "loop"
        /\ started # <<>>
        /\ j = started[Len(started)]
        /\ Val(jobs[j].last_run) - start_time > hist[j].timeout

----------------------------------------------------------------------------
(* C6 *)

\* C6: in every tick, for any configured max_concurrent_jobs, the jobs
\* executed are the first max_concurrent_jobs entries of the ordered due
\* sequence, in that order, and never more than max_concurrent_jobs of them.
C6_TickRunsFirstMaxConcurrent ==
    /\ Len(started) <= (IF config.max_concurrent_jobs > 0
                        THEN config.max_concurrent_jobs ELSE 0)
    /\ \A k \in 1..Len(started) : started[k] = due_jobs[k]
    /\ pc = "idle" => started = FirstN(due_jobs, config.max_concurrent_jobs)

----------------------------------------------------------------------------
(* C7 *)

\* C7: a call of get_jobs_due changes no field of any job, and a second call
\* right after it (no execution, no time advance) returns the same sequence.
C7_DueSelectionReadOnlyIdempotent ==
    [][(pc = "idle" /\ now' = now) =>
          (jobs' = jobs /\ get_jobs_due(jobs', now') = due_jobs')]_vars

\* get_jobs_due has just returned a list of two jobs or more
C7_Witness ==
    /\ pc = "loop"
    /\ idx = 1
    /\ started = <<>>
    /\ Len(due_jobs) >= 2
    /\ get_jobs_due(jobs, now) = due_jobs

----------------------------------------------------------------------------
(* C8 *)

\* C8: a disabled job is never returned by get_jobs_due and never executed,
\* whatever its schedule; its runtime state never changes.
C8_DisabledNeverSelected ==
    \A j \in JobIds :
        ~jobs[j].enabled =>
            /\ \A t \in 0..MaxTime : j \notin Range(get_jobs_due(jobs, t))
            /\ j \notin Range(due_jobs)
            /\ j \notin Range(started)
            /\ jobs[j].state = "pending"
            /\ jobs[j].last_run = None
            /\ jobs[j].last_result = None
            /\ jobs[j].retry_count = 0
            /\ hist[j] = NoHist

\* a disabled job with a schedule that fires, after a tick that selected
\* other jobs a second time
C8_Witness ==
    \E j \in JobIds :
        /\ ~jobs[j].enabled
        /\ is_job_due(jobs[j], now)
        /\ pc = "loop"
        /\ \E k \in Range(due_jobs) : hist[k].runs >= 1

----------------------------------------------------------------------------
(* C9 *)

\* C9: a job in state running is never returned by get_jobs_due, even when it
\* never ran or its schedule has fired since last_run; no job is started
\* while an execution of it is in progress.
C9_RunningNeverSelected ==
    /\ [](\A j \in JobIds :
             jobs[j].state = "running" => j \notin Range(get_jobs_due(jobs, now)))
    /\ [][\A j \in JobIds :
             (hist'[j].outcome = "running" /\ hist[j].outcome # "running")
                => jobs[j].state # "running"]_vars

\* a job is running that is enabled and due by its schedule
C9_Witness ==
    \E j \in JobIds :
        /\ jobs[j].state = "running"
        /\ jobs[j].enabled
        /\ is_job_due(jobs[j], now)
        /\ now > 0

----------------------------------------------------------------------------
(* C10 *)

\* C10: for a job that has run and has a valid schedule, the due-check holds
\* exactly when a scheduled firing at or before now is later than last_run.
C10_DueIffFiringAtOrBeforeNow ==
    \A j \in JobIds :
        (HasRun(j) /\ jobs[j].schedule # BadSchedule) =>
            (is_job_due(jobs[j], now) <=>
                \E f \in Firings(jobs[j].schedule) :
                    f > Val(jobs[j].last_run) /\ f <= now)

\* C10 as amended: for a job that has run and has a valid schedule, the
\* due-check holds exactly when a scheduled firing strictly before now is
\* later than last_run (a firing exactly at now does not count yet).
C10_DueIffFiringBeforeNow ==
    \A j \in JobIds :
        (HasRun(j) /\ jobs[j].schedule # BadSchedule) =>
            (is_job_due(jobs[j], now) <=>
                \E f \in Firings(jobs[j].schedule) :
                    f > Val(jobs[j].last_run) /\ f < now)

\* a job that has run is selected again by a later tick
C10_Witness ==
    /\ pc = "loop"
    /\ started = <<>>
    /\ \E k \in 1..Len(due_jobs) :
          /\ HasRun(due_jobs[k])
          /\ hist[due_jobs[k]].runs >= 1

----------------------------------------------------------------------------
(* C11 *)

\* C11: a job whose cron expression cannot be parsed is not due at any time:
\* the due-check answers FALSE for it (it answers, nothing is raised), the job
\* is never selected, started or executed, and the other jobs are selected
\* as if it were absent: get_jobs_due returns exactly the enabled, not running
\* jobs with a parsable schedule that never ran or whose schedule fired after
\* last_run and before now.
C11_BadScheduleNeverDue ==
    /\ \A j \in JobIds :
          ~CronValid(jobs[j].schedule) =>
              /\ \A t \in 0..MaxTime :
                    /\ is_job_due(jobs[j], t) = FALSE
                    /\ j \notin Range(get_jobs_due(jobs, t))
              /\ j \notin Range(due_jobs)
              /\ j \notin Range(started)
              /\ jobs[j].state = "pending"
              /\ jobs[j].last_run = None
              /\ hist[j] = NoHist
    /\ Range(get_jobs_due(jobs, now)) =
          {j \in JobIds :
              /\ jobs[j].enabled
              /\ jobs[j].state # "running"
              /\ CronValid(jobs[j].schedule)
              /\ \/ ~HasRun(j)
                 \/ \E f \in Firings(jobs[j].schedule) :
                       f > Val(jobs[j].last_run) /\ f < now}

\* an enabled job with an unparsable schedule that never ran, in a tick that
\* selected, for the second time, a job that comes after it in the mapping
C11_Witness ==
    \E b \in JobIds :
        /\ ~CronValid(jobs[b].schedule)
        /\ jobs[b].enabled
        /\ jobs[b].last_run = None
        /\ pc = "loop"
        /\ \E k \in Range(due_jobs) : k > b /\ hist[k].runs >= 1

----------------------------------------------------------------------------
(* C12 *)

\* C12: no backlog flooding.  A job that has run is not due while no firing
\* of its schedule lies after its recorded last_run and before now; when an
\* execution completes, however many firings had elapsed before it began, the
\* job is not due at that moment; and an execution of a job that has run
\* begins only after such a firing.
C12_NoBacklogFlooding ==
    /\ [](\A j \in JobIds :
             (HasRun(j) /\ ~\E f \in Firings(jobs[j].schedule) :
                               f > Val(jobs[j].last_run) /\ f < now)
                => j \notin Range(get_jobs_due(jobs, now)))
    /\ [][\A j \in JobIds :
             hist'[j].runs = hist[j].runs + 1
                => /\ j \notin Range(get_jobs_due(jobs', now'))
                   /\ jobs'[j].last_run = Some(now)]_vars
    /\ [][\A j \in JobIds :
             (hist'[j].outcome = "running" /\ hist[j].outcome # "running"
                 /\ HasRun(j))
                => \E f \in Firings(jobs[j].schedule) :
                       f > Val(jobs[j].last_run) /\ f < now]_vars

\* two firings elapsed between the first run of a job and the tick that ran
\* it for the second time; that run is over and the job is not due
C12_Witness ==
    \E j \in JobIds :
        /\ hist[j].backlog >= 2
        /\ hist[j].runs = 2
        /\ hist[j].outcome \in {"exit0", "exit1", "timeout", "error"}
        /\ pc = "idle"
        /\ j \notin Range(get_jobs_due(jobs, now))

----------------------------------------------------------------------------
(* C13 *)

\* C13: in every reachable state of a job driven by the scheduler,
\* retry_count <= max_retries, also for jobs with max_retries = 0.
C13_RetryCountAtMostMaxRetries ==
    \A j \in JobIds : jobs[j].retry_count <= jobs[j].max_retries

\* C13 as amended: retry_count is not bounded by max_retries.  It is at least
\* 0 and at most the number of executions of the job, it is 0 for a job that
\* is pending or completed, and every failed execution adds one to it, also
\* when it has reached or passed max_retries.
C13_RetryCountUnboundedByMaxRetries ==
    /\ [](\A j \in JobIds :
             /\ jobs[j].retry_count >= 0
             /\ jobs[j].retry_count <= hist[j].runs
             /\ jobs[j].state \in {"pending", "completed"}
                   => jobs[j].retry_count = 0)
    /\ [][\A j \in JobIds :
             (hist'[j].runs = hist[j].runs + 1
                 /\ ~Val(jobs'[j].last_result).success)
                => jobs'[j].retry_count = jobs[j].retry_count + 1]_vars

\* a job has failed more often in a row than its max_retries
C13_Witness ==
    \E j \in JobIds :
        /\ jobs[j].state = "failed"
        /\ jobs[j].retry_count > jobs[j].max_retries
        /\ hist[j].runs = jobs[j].retry_count

----------------------------------------------------------------------------
(* C14 *)

----------------------------------------------------------------------------
(* C15 *)

\* C15: can_retry() holds exactly when the job's state is failed and
\* retry_count < max_retries, that is, when the latest execution of the job
\* failed and fewer than max_retries executions have failed in a row; it is
\* false for a pending job, for a running or completed job, and for every
\* failed job with max_retries = 0.
C15_CanRetryIffFailedBelowMax ==
    \A j \in JobIds :
        /\ can_retry(jobs[j]) <=>
              (jobs[j].state = "failed"
                  /\ jobs[j].retry_count < jobs[j].max_retries)
        /\ can_retry(jobs[j]) <=>
              (hist[j].outcome \in {"exit1", "timeout", "error"}
                  /\ hist[j].streak < jobs[j].max_retries)
        /\ jobs[j].state \in {"pending", "running", "completed"}
              => ~can_retry(jobs[j])
        /\ (jobs[j].state = "failed" /\ jobs[j].max_retries = 0)
              => ~can_retry(jobs[j])
        /\ ~can_retry(NewJob(jobs[j].id, jobs[j].schedule, jobs[j].priority,
                             jobs[j].enabled, jobs[j].max_retries,
                             jobs[j].timeout_seconds))

\* a job that failed once may be retried while a failed job with
\* max_retries = 0 may not
C15_Witness ==
    /\ \E j \in JobIds :
          /\ can_retry(jobs[j])
          /\ jobs[j].retry_count = 1
    /\ \E k \in JobIds :
          /\ jobs[k].state = "failed"
          /\ jobs[k].max_retries = 0

----------------------------------------------------------------------------
(* C16 *)

\* C16: when the subprocess ends within the timeout, the JobResult is a
\* success exactly when the exit status is zero; on success the message is
\* the standard output without its leading and trailing blanks and the job is
\* completed, on a non-zero exit the message is the standard error without
\* its leading and trailing blanks and the job is failed.
C16_ExitStatusDecidesResult ==
    (~IsNone(last_exec.returned)
        /\ hist[last_exec.job].outcome \in {"exit0", "exit1"}) =>
        LET r == Val(last_exec.returned)
            j == last_exec.job
        IN  /\ r.success <=> hist[j].outcome = "exit0"
            /\ r.duration_seconds <= hist[j].timeout
            /\ r.message[1] = "output"
            /\ r.success =>
                  /\ IsTrimOf(r.message[2], last_exec.output.stdout)
                  /\ jobs[j].state = "completed"
            /\ ~r.success =>
                  /\ IsTrimOf(r.message[2], last_exec.output.stderr)
                  /\ jobs[j].state = "failed"

\* the second execution of a job exits non-zero with blanks around its
\* standard error, after a first execution that succeeded
C16_Witness ==
    /\ ~IsNone(last_exec.returned)
    /\ hist[last_exec.job].outcome = "exit1"
    /\ hist[last_exec.job].runs = 2
    /\ hist[last_exec.job].before = 0
    /\ last_exec.output.stderr # Val(last_exec.returned).message[2]
    /\ last_exec.output.stdout # <<>>

----------------------------------------------------------------------------
(* C17 *)

----------------------------------------------------------------------------
(* C18 *)

\* C18: a non-zero exit, a timeout and a failure to launch the process each
\* end execute_job with a failed JobResult recorded on the job (state failed,
\* retry counter one higher than before, last_run at the result's
\* timestamp); execute_job always returns to the loop, which counts the
\* execution, and never leaves by an exception.
C18_ExecutionErrorsRecordedNotRaised ==
    /\ [](\A j \in JobIds :
             hist[j].outcome \in {"exit1", "timeout", "error"} =>
                 /\ jobs[j].state = "failed"
                 /\ ~IsNone(jobs[j].last_result)
                 /\ ~Val(jobs[j].last_result).success
                 /\ jobs[j].retry_count = hist[j].before + 1
                 /\ jobs[j].last_run = Some(Val(jobs[j].last_result).timestamp))
    /\ [][(pc = "exec" /\ pc' # "exec") =>
             /\ pc' = "loop"
             /\ executed' = executed + 1
             /\ ~IsNone(last_exec'.returned)
             /\ hist'[last_exec'.job].runs = hist[last_exec'.job].runs + 1
             /\ jobs'[last_exec'.job].last_result = last_exec'.returned]_vars

\* three jobs whose latest executions ended by a non-zero exit, by a timeout
\* and by a failure to launch
C18_Witness ==
    /\ \E j \in JobIds : hist[j].outcome = "exit1" /\ jobs[j].state = "failed"
    /\ \E j \in JobIds : hist[j].outcome = "timeout" /\ jobs[j].state = "failed"
    /\ \E j \in JobIds : hist[j].outcome = "error" /\ jobs[j].state = "failed"

----------------------------------------------------------------------------
(* C19 *)

\* C19: each call of execute_job produces one JobResult and applies it to
\* the job once.  When the call returns, the job's last_result is the
\* returned result, its last_run is that result's timestamp, its state is
\* completed or failed, its retry counter is 0 after a success and one more
\* than before the call after a failure, and no other job has changed.
C19_OneResultAppliedOnce ==
    /\ [](~IsNone(last_exec.returned) =>
             LET j == last_exec.job
                 r == Val(last_exec.returned)
             IN  /\ jobs[j].last_result = Some(r)
                 /\ jobs[j].last_run = Some(r.timestamp)
                 /\ jobs[j].state = IF r.success THEN "completed" ELSE "failed"
                 /\ jobs[j].retry_count =
                       IF r.success THEN 0 ELSE hist[j].before + 1)
    /\ [][(pc = "exec" /\ pc' = "loop") =>
             LET j == due_jobs[idx]
             IN  /\ last_exec'.job = j
                 /\ jobs'[j].state \in {"completed", "failed"}
                 /\ jobs'[j].retry_count \in {0, jobs[j].retry_count + 1}
                 /\ hist'[j].runs = hist[j].runs + 1
                 /\ \A k \in JobIds \ {j} : jobs'[k] = jobs[k]]_vars

\* execute_job has returned the second failed result in a row of a job
C19_Witness ==
    /\ ~IsNone(last_exec.returned)
    /\ ~Val(last_exec.returned).success
    /\ hist[last_exec.job].runs = 2
    /\ jobs[last_exec.job].retry_count = 2
    /\ pc = "loop"

----------------------------------------------------------------------------
(* C20 *)

\* C20: an exception raised by execute_job for one selected job does not
\* abort the tick.  The loop goes on with the next selected job; when
\* run_once returns, execute_job has been called on every selected job, in
\* order, every selected job whose call did not raise has its result
\* recorded, and the returned count is the number of those jobs.
C20_RaiseDoesNotAbortTick ==
    /\ pc = "loop" => started = SubSeq(Selected, 1, idx - 1)
    /\ pc = "exec" => started = SubSeq(Selected, 1, idx)
    /\ (pc = "idle" /\ due_jobs # <<>>) =>
          /\ started = Selected
          /\ \A k \in 1..Len(started) :
                hist[started[k]].outcome # "raised" =>
                    /\ hist[started[k]].outcome \in
                          {"exit0", "exit1", "timeout", "error"}
                    /\ jobs[started[k]].state \in {"completed", "failed"}
                    /\ ~IsNone(jobs[started[k]].last_result)
                    /\ jobs[started[k]].last_run =
                          Some(Val(jobs[started[k]].last_result).timestamp)
          /\ ret = Cardinality({k \in 1..Len(started) :
                                   hist[started[k]].outcome # "raised"})

\* run_once has returned from a tick in which execute_job raised for the
\* first selected job and the second selected job ran and succeeded
C20_Witness ==
    /\ pc = "idle"
    /\ Len(started) = 2
    /\ hist[started[1]].outcome = "raised"
    /\ hist[started[2]].outcome = "exit0"
    /\ jobs[started[2]].state = "completed"
    /\ ret = 1

----------------------------------------------------------------------------
(* C21 *)

\* C21: the count returned by run_once is the number of jobs whose result
\* was recorded during the tick; it is 0 when no job is due and it is
\* min(number of due jobs, max_concurrent_jobs) when no execution raises.
C21_ReturnsCountOfExecuted ==
    (pc = "idle" /\ hist # [j \in JobIds |-> NoHist]) =>
        /\ due_jobs = <<>> => ret = 0
        /\ ret = Cardinality({k \in 1..Len(started) :
                                 hist[started[k]].outcome \in
                                     {"exit0", "exit1", "timeout", "error"}})
        /\ ret = IF Len(due_jobs) < config.max_concurrent_jobs
                 THEN Len(due_jobs) ELSE config.max_concurrent_jobs

----------------------------------------------------------------------------
(* C22 *)

\* C22: a stop request, by stop() or by the interrupt signal, takes effect
\* only between ticks: a job that has been started has its result recorded
\* before the loop exits, so no job is in state running once run has ended.
C22_StopOnlyBetweenTicks ==
    daemon.mode = "stopped" =>
        \A j \in JobIds :
            /\ jobs[j].state # "running"
            /\ hist[j].outcome # "running"

----------------------------------------------------------------------------
(* C23 *)

\* C23: a stop request that arrives while run sleeps between two ticks aborts
\* the sleep: once stop is requested no more of the poll interval is waited
\* out, and no other tick is started.
C23_StopAbortsSleep ==
    [][(daemon.mode = "sleep" /\ daemon.request # "none")
          => (now' = now /\ daemon'.mode \in {"sleep", "head", "stopped"})]_vars

----------------------------------------------------------------------------
(* C24 *)

\* C24: an Exception raised during a tick of run never ends run: it is
\* caught, run sleeps the poll interval and goes back to the loop head for
\* the next tick; run has ended only if a stop was requested.
C24_TickExceptionNotFatal ==
    /\ [](daemon.mode = "stopped" => daemon.request # "none")
    /\ [][daemon'.raised = daemon.raised + 1 =>
             /\ daemon'.mode = "error_sleep"
             /\ daemon'.wake = now + config.poll_interval_seconds
             /\ daemon'.running = daemon.running]_vars
    /\ [][(daemon.mode = "error_sleep" /\ daemon'.mode # "error_sleep") =>
             \/ daemon'.mode = "head" /\ now >= daemon.wake
             \/ daemon'.request = "interrupt"]_vars

\* a tick is executing jobs one poll interval after a tick that raised, and
\* nobody has asked the daemon to stop
C24_Witness ==
    /\ daemon.raised >= 1
    /\ daemon.request = "none"
    /\ daemon.mode = "tick"
    /\ pc = "exec"
    /\ now >= config.poll_interval_seconds

----------------------------------------------------------------------------
(* C25 *)

\* C25: Job.from_yaml rejects a definition that lacks some of id, name,
\* command, schedule with one error that lists every missing required field;
\* it rejects a priority that is not urgent, high, medium or low with another
\* error, which names the invalid value; a definition with all required
\* fields and no priority loads with priority medium, and with enabled true
\* and max_retries 0 where it does not set them.
C25_FromYamlValidation ==
    \A k \in 1..Len(loader.results) :
        LET d == Val(loader.dir)[k]
            r == loader.results[k]
            lacking == {"id", "name", "command", "schedule"} \ d.keys
        IN  d.kind = "dict" =>
                /\ lacking # {} =>
                      /\ r.error = "Missing required fields"
                      /\ Range(r.missing) = lacking
                      /\ Len(r.missing) = Cardinality(lacking)
                      /\ IsNone(r.job)
                /\ (lacking = {} /\ "priority" \in d.keys
                       /\ d.priority \notin {"urgent", "high", "medium", "low"}) =>
                      /\ r.error = "Invalid priority"
                      /\ r.invalid = Some(d.priority)
                      /\ r.missing = <<>>
                      /\ IsNone(r.job)
                /\ (lacking = {} /\ "priority" \notin d.keys) =>
                      /\ r.error = "none"
                      /\ Val(r.job).priority = "medium"
                      /\ Val(r.job).id = d.id
                      /\ "enabled" \notin d.keys => Val(r.job).enabled
                      /\ "max_retries" \notin d.keys
                            => Val(r.job).max_retries = 0
                      /\ Val(r.job).state = "pending"

\* load_jobs has read a file that lacks two or more required fields and a
\* file with all of them and an invalid priority
C25_Witness ==
    /\ Len(loader.results) = 2
    /\ \E k \in 1..2 : Len(loader.results[k].missing) >= 2
    /\ \E k \in 1..2 : loader.results[k].invalid = Some("asap")

----------------------------------------------------------------------------
(* C26 *)

\* C26: load_jobs isolates definition errors.  A file that fails to load is
\* skipped: it changes no job and the loop goes on with the next file, so
\* that when load_jobs returns every file with a valid definition has its
\* job in the mapping and the returned count is the number of those files.
\* A missing or empty jobs directory gives 0 and leaves the mapping as it was.
C26_LoadJobsIsolatesErrors ==
    /\ [](loader.phase = "done" =>
             IF IsNone(loader.dir) \/ loader.dir = Some(<<>>)
             THEN loader.ret = 0 /\ jobs = loader.before
             ELSE LET dir == Val(loader.dir)
                      good == {k \in 1..Len(dir) : Loadable(dir[k])}
                  IN  /\ Len(loader.results) = Len(dir)
                      /\ loader.ret = Cardinality(good)
                      /\ \A k \in good :
                            \E j \in JobIds : jobs[j].id = dir[k].id
                      /\ \A k \in 1..Len(dir) :
                            k \notin good <=> loader.results[k].error # "none"
                      /\ \A j \in 1..Len(loader.before) :
                            (\A k \in good : dir[k].id # loader.before[j].id)
                               => jobs[j] = loader.before[j]
                      /\ good = {} => jobs = loader.before)
    /\ [][(Len(loader'.results) = Len(loader.results) + 1
              /\ loader'.results[Len(loader'.results)].error # "none")
             => /\ jobs' = jobs
                /\ loader'.phase = "loop"
                /\ loader'.pos = loader.pos + 1
                /\ loader'.loaded = loader.loaded]_vars

\* load_jobs has returned 1 from a directory whose first file failed to
\* load and whose second file holds a job that was not known before
C26_Witness ==
    /\ loader.phase = "done"
    /\ Len(loader.results) = 2
    /\ loader.results[1].error # "none"
    /\ loader.results[2].error = "none"
    /\ loader.ret = 1
    /\ Len(jobs) = Len(loader.before) + 1
    /\ loader.before # <<>>

----------------------------------------------------------------------------
(* C29 *)

\* C29: after any sequence of mark_processed calls, a StateTracker opened on
\* the same state file reports is_processed for exactly the (source, item)
\* pairs that were marked, and get_processed_count(source) is the number of
\* distinct items marked for the source: an item marked twice counts once.
C29_TrackerRoundTrip ==
    LET reopened == [processed |-> Loaded_processed(state_file)]
        Agrees(t) ==
            \A source \in TrackSources :
                /\ \A item_id \in TrackItems :
                      is_processed(t, source, item_id)
                          <=> <<source, item_id>> \in tracker.log
                /\ get_processed_count(t, source) =
                      Cardinality({item_id \in TrackItems :
                                      <<source, item_id>> \in tracker.log})
    IN  /\ Agrees(reopened)
        /\ tracker.fresh => Agrees(tracker)

\* a tracker opened on the file after four calls that marked three pairs,
\* two of them of one source
C29_Witness ==
    /\ tracker.fresh
    /\ tracker.calls = 4
    /\ Cardinality(tracker.log) = 3
    /\ \E source \in TrackSources : get_processed_count(tracker, source) = 2

\* C27 (as stated): across any number of poll cycles each item, that is each
\* pair of item.source and item_id, is processed at most once and
\* acknowledged at most once
C27_ProcessedAtMostOnce ==
    /\ \A i, j \in 1..Len(orch.processed) :
          (/\ orch.processed[i].source = orch.processed[j].source
           /\ orch.processed[i].item_id = orch.processed[j].item_id) => i = j
    /\ \A s \in DOMAIN orch.acknowledged :
          \A i, j \in 1..Len(orch.acknowledged[s]) :
             orch.acknowledged[s][i] = orch.acknowledged[s][j] => i = j

\* the priorities the orchestrator knows, most urgent first
KnownPriorities == <<"urgent", "high", "medium", "low">>

\* the items of a list that have one known priority, or an unknown one
WithPriority(items, p) ==
    LET Has(item) == item.priority = p IN SelectSeq(items, Has)

WithUnknownPriority(items) ==
    LET Unknown(item) == \A k \in 1..Len(KnownPriorities) :
                            item.priority # KnownPriorities[k]
    IN  SelectSeq(items, Unknown)

\* the items in the order the claim gives: urgent, high, medium, low, then
\* unknown, each class in the order of the list
InPriorityOrder(items) ==
    WithPriority(items, "urgent") \o WithPriority(items, "high")
       \o WithPriority(items, "medium") \o WithPriority(items, "low")
       \o WithUnknownPriority(items)

\* the item ids of the items of one source that process_item acknowledged,
\* in the order they were processed
AcknowledgedIds(s) ==
    LET Ack(k) == /\ orch.processed[k].source = s
                  /\ orch.outcomes[k] = "acknowledged"
        RECURSIVE Upto(_)
        Upto(n) == IF n = 0 THEN <<>>
                   ELSE IF Ack(n) THEN Append(Upto(n - 1), orch.processed[n].item_id)
                   ELSE Upto(n - 1)
    IN  Upto(Len(orch.processed))

\* C28: while poll_cycle processes, the items it goes through are the new
\* items of the polled sources in priority order urgent, high, medium, low,
\* unknown last, equal priorities in polling order; the items processed so
\* far in the cycle are the first ones of that order, and every source has
\* acknowledged its items in the order they were processed
C28_ProcessedInPriorityOrder ==
    /\ orch.phase = "processing" =>
          /\ orch.all_items = InPriorityOrder(orch.unsorted)
          /\ orch.item_pos - 1 <= Len(orch.processed)
          /\ SubSeq(orch.processed,
                    Len(orch.processed) - (orch.item_pos - 1) + 1,
                    Len(orch.processed))
                = SubSeq(orch.all_items, 1, orch.item_pos - 1)
    /\ \A s \in DOMAIN orch.acknowledged :
          orch.acknowledged[s] = AcknowledgedIds(s)

\* a cycle has processed the six new items of two sources: two urgent ones
\* and two low ones in polling order, and the one of unknown priority last
C28_Witness ==
    /\ orch.phase = "processing"
    /\ Len(orch.all_items) = 6
    /\ orch.item_pos = 7
    /\ orch.polled = <<"a", "b">>
    /\ orch.unsorted[1].priority = "low"
    /\ orch.unsorted[3].priority = "someday"
    /\ orch.processed[1] = InputItem("a", "i2", "urgent")
    /\ orch.processed[2] = InputItem("b", "i3", "urgent")
    /\ orch.processed[4] = InputItem("a", "i1", "low")
    /\ orch.processed[5] = InputItem("b", "i2", "low")
    /\ orch.processed[6].priority = "someday"
    /\ orch.acknowledged["a"] = <<"i2", "i1", "i3">>
    /\ orch.acknowledged["b"] = <<"i3", "i1", "i2">>

\* C30: while the command of a job runs the job's state is running, from
\* before the command is invoked on; a job's state leaves running only in
\* the step that records the job's result, and then it is completed or failed
C30_RunningWhileCommandRuns ==
    /\ [](pc = "exec" => jobs[Current].state = "running")
    /\ [][\A j \in DOMAIN jobs :
             (j \in DOMAIN jobs' /\ jobs[j].state = "running"
                /\ jobs'[j].state # "running")
             => /\ jobs'[j].state \in {"completed", "failed"}
                /\ pc = "exec" /\ pc' = "loop"
                /\ last_exec.job = j
                /\ last_exec'.returned # None
                /\ hist'[j].runs = hist[j].runs + 1]_vars

\* the command of a job has been running for some time and has not returned
C30_Witness ==
    /\ pc = "exec"
    /\ now > start_time
    /\ jobs[Current].state = "running"
    /\ last_exec.returned = None

----------------------------------------------------------------------------
(* C31 *)

\* the transitions of a job's lifecycle state the claim allows
LifecycleTransitions ==
    { <<"pending", "running">>, <<"completed", "running">>,
      <<"failed", "running">>, <<"running", "completed">>,
      <<"running", "failed">> }

\* C31: under the scheduler loop a job that has not been executed or started
\* is pending, and a job's state changes only pending -> running,
\* completed -> running, failed -> running, running -> completed or
\* running -> failed: it never returns to pending and never moves between
\* completed and failed directly.
C31_LifecycleTransitions ==
    /\ [](\A j \in JobIds :
             (hist[j].runs = 0 /\ hist[j].outcome = "none")
                => jobs[j].state = "pending")
    /\ [][\A j \in JobIds :
             jobs'[j].state # jobs[j].state
                => /\ <<jobs[j].state, jobs'[j].state>> \in LifecycleTransitions
                   /\ jobs'[j].state # "pending"]_vars

\* a job has gone pending, running, failed, running, completed
C31_Witness ==
    \E j \in JobIds :
        /\ hist[j].runs = 2
        /\ hist[j].before = 1
        /\ jobs[j].state = "completed"

----------------------------------------------------------------------------
(* C32 *)

\* C32: the step that records a result r for a job sets last_result to r and
\* last_run to r's timestamp; if r is successful the state becomes completed
\* and the retry counter 0, and if r is unsuccessful (non-zero exit, launch
\* failure or timeout) the state becomes failed and the retry counter one
\* more than before.  A job is completed only with a successful last_result.
C32_RecordResult ==
    /\ [](\A j \in JobIds :
             jobs[j].state = "completed"
                => /\ ~IsNone(jobs[j].last_result)
                   /\ Val(jobs[j].last_result).success
                   /\ hist[j].outcome = "exit0")
    /\ [][\A j \in JobIds :
             hist'[j].runs = hist[j].runs + 1
                => LET r == Val(last_exec'.returned)
                   IN  /\ jobs'[j] = record_result(jobs[j], r)
                       /\ jobs'[j].last_result = Some(r)
                       /\ jobs'[j].last_run = Some(r.timestamp)
                       /\ r.success = (hist'[j].outcome = "exit0")
                       /\ r.success =>
                             /\ jobs'[j].state = "completed"
                             /\ jobs'[j].retry_count = 0
                       /\ ~r.success =>
                             /\ hist'[j].outcome \in {"exit1", "error", "timeout"}
                             /\ jobs'[j].state = "failed"
                             /\ jobs'[j].retry_count = jobs[j].retry_count + 1]_vars

\* a timeout has been recorded for a job whose earlier result was a failure
\* too: its retry counter went from 1 to 2
C32_Witness ==
    \E j \in JobIds :
        /\ hist[j].runs = 2
        /\ hist[j].outcome = "timeout"
        /\ hist[j].before = 1
        /\ jobs[j].state = "failed"
        /\ jobs[j].retry_count = 2
        /\ jobs[j].last_result = last_exec.returned

----------------------------------------------------------------------------
(* C33 *)

\* C33: a failed or completed job is among the due jobs of a tick exactly
\* when it is enabled and a firing of its (parsable) schedule lies after its
\* last_run and before now; the due jobs are the same whatever the job's
\* retry_count and max_retries are, so can_retry() plays no part; and a
\* failed or completed job is started again only after such a firing.
C33_RetriesNotSpecialCased ==
    /\ [](\A j \in JobIds :
             jobs[j].state \in {"failed", "completed"} =>
                /\ j \in Range(get_jobs_due(jobs, now))
                      <=> /\ jobs[j].enabled
                          /\ CronValid(jobs[j].schedule)
                          /\ \E f \in Firings(jobs[j].schedule) :
                                f > Val(jobs[j].last_run) /\ f < now
                /\ \A rc \in 0..3 : \A mr \in 0..3 :
                      get_jobs_due([jobs EXCEPT ![j].retry_count = rc,
                                                ![j].max_retries = mr], now)
                         = get_jobs_due(jobs, now))
    /\ [][\A j \in JobIds :
             (jobs[j].state \in {"failed", "completed"}
                 /\ jobs'[j].state = "running")
                => \E f \in Firings(jobs[j].schedule) :
                      f > Val(jobs[j].last_run) /\ f < now]_vars

\* a job that failed once and could still retry has been started again, by
\* a tick after the one firing of its schedule since the failure
C33_Witness ==
    \E j \in JobIds :
        /\ pc = "exec"
        /\ Current = j
        /\ hist[j].runs = 1
        /\ hist[j].streak = 1
        /\ jobs[j].retry_count < jobs[j].max_retries
        /\ hist[j].backlog = 1

----------------------------------------------------------------------------
(* C34 *)

\* the due jobs of the latest tick that its slice left out
Deferred == Range(due_jobs) \ Range(Selected)

\* C34: a due job that the slice of a tick leaves out is not changed by
\* that tick, and from then on it is returned by get_jobs_due at every
\* moment, however much time passes, until a later tick selects it; in
\* general a job that get_jobs_due returns and that is not executed stays
\* returned when time advances.
C34_DeferredUntouchedStillDue ==
    /\ [](\A j \in Deferred : j \in Range(get_jobs_due(jobs, now)))
    /\ [][\A j \in JobIds :
             /\ (j \in Deferred' /\ (pc # "idle" \/ pc' # "idle"))
                   => jobs'[j] = jobs[j]
             /\ (j \in Range(get_jobs_due(jobs, now)) /\ jobs'[j] = jobs[j])
                   => j \in Range(get_jobs_due(jobs', now'))]_vars

\* a tick executed one job and left another due job out; the tick is over,
\* time has passed since, and the job left out is as it was loaded
C34_Witness ==
    \E j \in Deferred : \E k \in Range(Selected) :
        /\ pc = "idle"
        /\ config.max_concurrent_jobs = 1
        /\ HasRun(k)
        /\ now >= Val(jobs[k].last_run) + Minute
        /\ jobs[j].state = "pending"
        /\ IsNone(jobs[j].last_run)
        /\ IsNone(jobs[j].last_result)
        /\ jobs[j].retry_count = 0

----------------------------------------------------------------------------
(* C35 *)

\* the jobs in state running
Running == {j \in JobIds : jobs[j].state = "running"}

\* C35 (as stated): at every moment the number of running jobs is at most
\* max_concurrent_jobs, at most one with max_concurrent_jobs = 1, and
\* between two ticks no job is running
C35_RunningAtMostMaxConcurrent ==
    /\ Cardinality(Running) <= config.max_concurrent_jobs
    /\ config.max_concurrent_jobs = 1 => Cardinality(Running) <= 1
    /\ pc = "idle" => Running = {}

----------------------------------------------------------------------------
(* C36 *)

\* the fields of a job that come from its definition
Definition(job) ==
    [id |-> job.id, schedule |-> job.schedule, priority |-> job.priority,
     enabled |-> job.enabled, max_retries |-> job.max_retries,
     timeout_seconds |-> job.timeout_seconds]

\* C36: no step of the scheduler adds or removes a job or changes a job's
\* definition fields; a job's record changes only in the steps of its own
\* execution (state set to running, result recorded), and such a step
\* changes no other job's record.
C36_ExecutionChangesOnlyItsJob ==
    [][/\ Len(jobs') = Len(jobs)
       /\ \A j \in JobIds :
             /\ Definition(jobs'[j]) = Definition(jobs[j])
             /\ jobs'[j] # jobs[j]
                   => /\ pc \in {"loop", "exec"}
                      /\ j = Current
                      /\ last_exec'.job = j
                      /\ \A k \in JobIds \ {j} : jobs'[k] = jobs[k]]_vars

\* the second execution of a job has recorded a failure while two other
\* jobs of the mapping are still as they were loaded
C36_Witness ==
    \E j \in JobIds :
        /\ ~IsNone(last_exec.returned)
        /\ last_exec.job = j
        /\ hist[j].runs = 2
        /\ jobs[j].state = "failed"
        /\ Cardinality({k \in JobIds \ {j} :
                           /\ jobs[k].state = "pending"
                           /\ IsNone(jobs[k].last_run)
                           /\ jobs[k].retry_count = 0}) >= 2

----------------------------------------------------------------------------
(* C37 *)

\* C37 (as stated): while the loop keeps ticking with max_concurrent_jobs
\* >= 1, every enabled job with a valid schedule that is due at the head of
\* the loop is executed by that tick or by a later one
C37_NoStarvation ==
    \A j \in 1..4 :
        [](( /\ j \in JobIds
             /\ config.max_concurrent_jobs >= 1
             /\ daemon.mode = "head"
             /\ jobs[j].enabled
             /\ CronValid(jobs[j].schedule)
             /\ is_job_due(jobs[j], now) )
              => <>(daemon.mode = "sleep" /\ j \in Range(started)))

\* the jobs a tick at this moment finds due
DueNow == {j \in JobIds : /\ jobs[j].enabled
                          /\ jobs[j].state # "running"
                          /\ is_job_due(jobs[j], now)}

\* the due jobs that come before job j in a tick at this moment: those of a
\* more urgent priority, and those of the same priority earlier in the mapping
Ahead(j) ==
    {k \in DueNow : \/ Rank(jobs[k].priority) < Rank(jobs[j].priority)
                    \/ /\ Rank(jobs[k].priority) = Rank(jobs[j].priority)
                       /\ k < j}

\* C37 as amended: there is no guarantee against starvation.  With
\* max_concurrent_jobs >= 1 a tick executes exactly the due jobs that have
\* fewer than max_concurrent_jobs due jobs ahead of them (by priority, then
\* by position in the mapping); a due job behind them is left as it is and
\* is still due after the poll interval, and it is executed by a later tick
\* only if then fewer than max_concurrent_jobs due jobs are ahead of it, so
\* nothing bounds the number of ticks in a row that leave it out.
C37_ExecutedIffFewAhead ==
    /\ [](\A j \in JobIds :
             daemon.left_out[j] > 0
                => /\ jobs[j].enabled
                   /\ is_job_due(jobs[j], now)
                   /\ daemon.mode = "sleep" =>
                         /\ j \notin Range(started)
                         /\ is_job_due(jobs[j], daemon.wake))
    /\ [][daemon.mode = "head" =>
             \A j \in JobIds :
                /\ j \in Range(started')
                      <=> /\ j \in DueNow
                          /\ Cardinality(Ahead(j)) < config.max_concurrent_jobs
                /\ j \notin Range(started') => jobs'[j] = jobs[j]
                /\ j \in Range(started') => Val(jobs'[j].last_run) = now
                /\ (j \in DueNow /\ j \notin Range(started'))
                      => daemon'.left_out[j] >= 1]_vars

\* with max_concurrent_jobs = 1 a job that has never run has been due and
\* left out by MaxDeferrals ticks in a row: the latest tick has run a job
\* ahead of it, and the tick before ran another one
C37_Witness ==
    \E j \in JobIds : \E k \in JobIds :
        /\ config.max_concurrent_jobs = 1
        /\ daemon.mode = "sleep"
        /\ daemon.left_out[j] = MaxDeferrals
        /\ IsNone(jobs[j].last_run)
        /\ jobs[j].enabled
        /\ CronValid(jobs[j].schedule)
        /\ started = <<k>>
        /\ Val(jobs[k].last_run) = now
        /\ \E i \in JobIds \ {j, k} :
              HasRun(i) /\ Val(jobs[i].last_run) = now - Minute

----------------------------------------------------------------------------
(* C38 *)

\* C38: the step that resets a job sets its state to pending and its retry
\* counter to 0 and changes nothing else: last_run, last_result, the
\* definition fields and the other jobs are as before.  A pending job that
\* has run is therefore due exactly when a firing of its schedule lies after
\* its last_run and before now, as for any job that has run, and
\* get_jobs_due returns it only then.
C38_ResetKeepsLastRun ==
    /\ [](\A j \in JobIds :
             (jobs[j].state = "pending" /\ HasRun(j)) =>
                /\ hist[j].outcome = "reset"
                /\ jobs[j].retry_count = 0
                /\ ~IsNone(jobs[j].last_result)
                /\ Val(jobs[j].last_result).timestamp = Val(jobs[j].last_run)
                /\ j \in Range(get_jobs_due(jobs, now))
                      <=> /\ jobs[j].enabled
                          /\ \E f \in Firings(jobs[j].schedule) :
                                f > Val(jobs[j].last_run) /\ f < now)
    /\ [][\A j \in JobIds :
             (jobs'[j] # jobs[j] /\ jobs'[j].state = "pending")
                => /\ jobs'[j].retry_count = 0
                   /\ jobs'[j].last_run = jobs[j].last_run
                   /\ jobs'[j].last_result = jobs[j].last_result
                   /\ Definition(jobs'[j]) = Definition(jobs[j])
                   /\ \A k \in JobIds \ {j} : jobs'[k] = jobs[k]]_vars

\* a job that failed has been reset; time has passed since its run but no
\* firing of its schedule, the job is not due and the latest tick found
\* nothing due
C38_Witness ==
    \E j \in JobIds :
        /\ jobs[j].state = "pending"
        /\ hist[j].outcome = "reset"
        /\ hist[j].before >= 1
        /\ ~Val(jobs[j].last_result).success
        /\ jobs[j].retry_count = 0
        /\ now > Val(jobs[j].last_run)
        /\ ~is_job_due(jobs[j], now)
        /\ pc = "idle"
        /\ due_jobs = <<>>

----------------------------------------------------------------------------
(* C39 *)

\* C39 (as stated): when load_jobs has returned on a scheduler whose job
\* mapping was empty, the count it returned is the number of jobs in the
\* mapping, and every definition it counted is in the mapping under its id
C39_CountIsMappingSize ==
    (loader.phase = "done" /\ loader.before = <<>>) =>
        /\ loader.ret = Len(jobs)
        /\ \A k \in 1..Len(loader.results) :
              loader.results[k].error = "none"
                 => \E j \in JobIds :
                       /\ jobs[j].id = Val(loader.results[k].job).id
                       /\ jobs[j] = Val(loader.results[k].job)

----------------------------------------------------------------------------
(* C40 *)

\* C40 (as stated): an item for which process_item returned True is marked
\* processed and acknowledged by its source; an item for which process_item
\* returned False, because acknowledge raised or its source is unknown, is
\* not marked processed
C40_FailedItemNotMarked ==
    \A k \in 1..Len(orch.processed) :
        LET item == orch.processed[k]
        IN  /\ orch.outcomes[k] = "acknowledged"
                  => /\ is_processed(tracker, item.source, item.item_id)
                     /\ item.item_id \in SetOf(orch.acknowledged[item.source])
            /\ orch.outcomes[k] # "acknowledged"
                  => ~is_processed(tracker, item.source, item.item_id)

====
